---- MODULE Spec2Model ----
(***************************************************************************)
(* Model of agentic-tooling: the job ledger (.agentic-tasks.json), the     *)
(* execution driver (runner scripts and scripts/cli.ts), the process       *)
(* gateway (runDocker) and the tool harvester (collectTools).              *)
(***************************************************************************)
EXTENDS Integers, Sequences, FiniteSets, TLC

(***************************************************************************)
(* Bounds of the model.                                                    *)
(***************************************************************************)
MaxJobs == 2
MaxClock == 2
MaxExit == 1
MaxContent == 2
MaxChunks == 1
MaxBytes == 7
MaxPairs == 1
MaxWords == 2

Jobs == 1..MaxJobs

Min(S) == CHOOSE x \in S : \A y \in S : x <= y
ExitCodes == 0..MaxExit

VARIABLES
    clock,       \* Date.now()
    tasksFile,   \* .agentic-tasks.json: [exists, content]
    pc,          \* per job: position of its submitter / runner in the ledger protocol
    taskId,      \* per job: const taskId = Date.now().toString()
    tasks,       \* per job: the local `tasks` array of handleSubmit / updateTask
    statusArg,   \* per job: the status argument of the pending updateTask call
    endArg,      \* per job: the endTime argument of the pending updateTask call
    workspace,   \* the working directory: file name -> entry (top level only)
    store,       \* the tools directory: file name -> entry
    hpc,         \* per job: position of its collectTools call
    hvariant,    \* per job: which collectTools runs ("cli" or "runner")
    listing,     \* per job: `files`, the result of readdirSync
    hidx,        \* per job: index of the loop over `files`
    newTools,    \* per job: names copied by this collectTools call
    variant,     \* which driver runs: "cli", "docker" (runner) or "remote" (runner)
    retryModel,  \* whether a fallback model is configured (retryModel non-empty)
    dpc,         \* position of the driver in its main flow
    launched,    \* the models the agent was launched with, in order
    attempts,    \* the attempts that returned: [exitCode, output, how]
    result,      \* `result`: [exitCode, output] of the last attempt that returned
    caught,      \* whether the driver is in its catch block
    procExit,    \* the argument of process.exit, once called
    child,       \* the local child processes, one per launch: state of each
    gw,          \* runDocker of the CLI: the pending call (child, timer, output)
    sandbox,     \* the remote sandbox: "none", "created", "ready", "deleted"
    imageSteps,  \* the steps ensureDockerImage has taken: [cmd, ok]
    image,       \* the local image: "unknown", "usable", "broken", "absent", "buildFailed"
    useRayBuddy, \* CLI: whether the shared tool repository is in use
    gitSteps,    \* CLI: the git commands syncToolsToRayBuddy has run: [cmd, ok]
    collectFailed, \* whether something threw inside the driver's collectTools call
    hcpc,        \* sandbox helper CLI: position in its main()
    opts,        \* helper: the parsed options [push, cmd, pull, keep]
    localFile,   \* helper: the bytes of the local file that is pushed
    remoteFile,  \* helper: the remote file [exists, bytes]
    outFile,     \* helper: the local file a pull writes [exists, bytes]
    b64,         \* helper: pushFile's base64 text of the local file
    offset,      \* helper: pushFile's loop index i
    calls,       \* helper, remote runner: the sandbox calls issued so far
    processExitCode, \* helper: process.exitCode
    pushIdx,     \* helper: index of the loop over opts.push
    pullIdx,     \* helper: index of the loop over opts.pull
    logFile,     \* the driver job's log: the attempt outputs log() appended, labelled
    logsDir,     \* whether the .agentic-logs directory exists
    ppc,         \* task list: position of its clearTasks call
    toast,       \* task list: the toast clearTasks showed last
    removed,     \* task list: what the clearTasks call did to the ledger and the logs
    agentOutput, \* refusal check on its own: the `output` handed to detectRefusal
    isRefusal    \* refusal check on its own: [by, refusal], what detectRefusal returned

ledgerVars == <<clock, tasksFile, pc, taskId, tasks, statusArg, endArg>>

harvestVars == <<workspace, store, hpc, hvariant, listing, hidx, newTools>>

driverVars == <<variant, retryModel, dpc, launched, attempts, result, caught,
                procExit, child, gw, sandbox, imageSteps, image, useRayBuddy,
                gitSteps, collectFailed, logFile>>

\* The driver's variables but the record of its harvest and sync.
flowVars == <<variant, retryModel, dpc, launched, attempts, result, caught,
              procExit, child, gw, sandbox, imageSteps, image, useRayBuddy>>

helperVars == <<hcpc, opts, localFile, remoteFile, outFile, b64, offset, calls,
                processExitCode, pushIdx, pullIdx>>

purgeVars == <<logsDir, ppc, toast, removed>>

scanVars == <<agentOutput, isRefusal>>

\* The variables of the helper CLI and of the task list.
toolVars == <<helperVars, purgeVars, scanVars>>

\* The same but the log of sandbox calls, which the remote runner adds to.
besideCalls == <<hcpc, opts, localFile, remoteFile, outFile, b64, offset,
                 processExitCode, pushIdx, pullIdx, purgeVars, scanVars>>

\* What a step of the driver that logs no attempt output leaves alone besides
\* the driver's own variables.
otherVars == <<toolVars, logFile>>

vars == <<clock, tasksFile, pc, taskId, tasks, statusArg, endArg,
          workspace, store, hpc, hvariant, listing, hidx, newTools,
          variant, retryModel, dpc, launched, attempts, result, caught,
          procExit, child, gw, sandbox, imageSteps, image, useRayBuddy,
          gitSteps, collectFailed,
          hcpc, opts, localFile, remoteFile, outFile, b64, offset, calls,
          processExitCode, pushIdx, pullIdx, logFile, logsDir, ppc, toast, removed,
          agentOutput, isRefusal>>

(***************************************************************************)
(* Text.  A string is the sequence of its characters.                      *)
(***************************************************************************)
UpperCase == <<"A", "B", "C", "D", "E", "F", "G", "H", "I", "J", "K", "L", "M",
               "N", "O", "P", "Q", "R", "S", "T", "U", "V", "W", "X", "Y", "Z">>
LowerCase == <<"a", "b", "c", "d", "e", "f", "g", "h", "i", "j", "k", "l", "m",
               "n", "o", "p", "q", "r", "s", "t", "u", "v", "w", "x", "y", "z">>

UpperLetters == {UpperCase[k] : k \in DOMAIN UpperCase}
lowerOf == [c \in UpperLetters |->
               LowerCase[CHOOSE k \in DOMAIN UpperCase : UpperCase[k] = c]]

\* String.prototype.toLowerCase, character by character
toLowerCase(s) ==
    [i \in DOMAIN s |-> IF s[i] \in UpperLetters THEN lowerOf[s[i]] ELSE s[i]]

\* String.prototype.includes
includes(s, p) ==
    \E i \in 0..(Len(s) - Len(p)) : SubSeq(s, i + 1, i + Len(p)) = p

\* String.prototype.endsWith
endsWith(s, p) ==
    Len(p) <= Len(s) /\ SubSeq(s, Len(s) - Len(p) + 1, Len(s)) = p

\* REFUSAL_PATTERNS of the Docker runner and of the CLI
REFUSAL_PATTERNS ==
    << <<"I", " ", "c", "a", "n", "'", "t", " ", "h", "e", "l", "p">>,
       <<"I", " ", "c", "a", "n", "n", "o", "t", " ", "h", "e", "l", "p">>,
       <<"I", "'", "m", " ", "u", "n", "a", "b", "l", "e", " ", "t", "o">>,
       <<"I", " ", "a", "m", " ", "u", "n", "a", "b", "l", "e", " ", "t", "o">>,
       <<"I", " ", "c", "a", "n", "'", "t", " ", "a", "s", "s", "i", "s", "t">>,
       <<"I", " ", "c", "a", "n", "n", "o", "t", " ", "a", "s", "s", "i", "s", "t">>,
       <<"a", "g", "a", "i", "n", "s", "t", " ", "m", "y", " ", "g", "u", "i", "d", "e", "l", "i", "n", "e", "s">>,
       <<"I", "'", "m", " ", "n", "o", "t", " ", "a", "b", "l", "e", " ", "t", "o">>,
       <<"I", " ", "a", "m", " ", "n", "o", "t", " ", "a", "b", "l", "e", " ", "t", "o">>,
       <<"I", " ", "w", "o", "n", "'", "t", " ", "b", "e", " ", "a", "b", "l", "e">>,
       <<"I", " ", "w", "i", "l", "l", " ", "n", "o", "t", " ", "b", "e", " ", "a", "b", "l", "e">>,
       <<"n", "o", "t", " ", "s", "o", "m", "e", "t", "h", "i", "n", "g", " ", "I", " ", "c", "a", "n", " ", "h", "e", "l", "p", " ", "w", "i", "t", "h">>,
       <<"I", "'", "m", " ", "s", "o", "r", "r", "y", ",", " ", "b", "u", "t", " ", "I", " ", "c", "a", "n", "'", "t">>,
       <<"I", " ", "a", "p", "o", "l", "o", "g", "i", "z", "e", ",", " ", "b", "u", "t", " ", "I", " ", "c", "a", "n", "n", "o", "t">>,
       <<"n", "e", "e", "d", " ", "t", "o", " ", "d", "e", "c", "l", "i", "n", "e">>,
       <<"I", " ", "s", "h", "o", "u", "l", "d", " ", "n", "o", "t", " ", "h", "e", "l", "p">>,
       <<"I", " ", "s", "h", "o", "u", "l", "d", "n", "'", "t", " ", "h", "e", "l", "p">>,
       <<"I", " ", "m", "u", "s", "t", " ", "d", "e", "c", "l", "i", "n", "e">>,
       <<"c", "a", "n", "n", "o", "t", " ", "f", "u", "l", "f", "i", "l", "l", " ", "t", "h", "i", "s", " ", "r", "e", "q", "u", "e", "s", "t">>,
       <<"c", "a", "n", "'", "t", " ", "f", "u", "l", "f", "i", "l", "l", " ", "t", "h", "i", "s", " ", "r", "e", "q", "u", "e", "s", "t">>,
       <<"d", "e", "c", "l", "i", "n", "e", " ", "t", "h", "i", "s", " ", "r", "e", "q", "u", "e", "s", "t">>,
       <<"r", "e", "s", "p", "e", "c", "t", "f", "u", "l", "l", "y", " ", "d", "e", "c", "l", "i", "n", "e">>,
       <<"v", "i", "o", "l", "a", "t", "e", "s", " ", "Y", "o", "u", "T", "u", "b", "e", "'", "s", " ", "T", "e", "r", "m", "s">>,
       <<"T", "e", "r", "m", "s", " ", "o", "f", " ", "S", "e", "r", "v", "i", "c", "e">>,
       <<"c", "o", "p", "y", "r", "i", "g", "h", "t", " ", "i", "n", "f", "r", "i", "n", "g", "e", "m", "e", "n", "t">> >>

\* REFUSAL_PATTERNS of the remote-sandbox runner
REFUSAL_PATTERNS_REMOTE ==
    << <<"I", " ", "c", "a", "n", "'", "t", " ", "h", "e", "l", "p">>,
       <<"I", " ", "c", "a", "n", "n", "o", "t", " ", "h", "e", "l", "p">>,
       <<"I", "'", "m", " ", "u", "n", "a", "b", "l", "e", " ", "t", "o">>,
       <<"I", " ", "a", "m", " ", "u", "n", "a", "b", "l", "e", " ", "t", "o">>,
       <<"I", " ", "c", "a", "n", "'", "t", " ", "a", "s", "s", "i", "s", "t">>,
       <<"I", " ", "c", "a", "n", "n", "o", "t", " ", "a", "s", "s", "i", "s", "t">>,
       <<"v", "i", "o", "l", "a", "t", "e">>,
       <<"T", "e", "r", "m", "s", " ", "o", "f", " ", "S", "e", "r", "v", "i", "c", "e">>,
       <<"a", "g", "a", "i", "n", "s", "t", " ", "m", "y", " ", "g", "u", "i", "d", "e", "l", "i", "n", "e", "s">>,
       <<"I", "'", "m", " ", "n", "o", "t", " ", "a", "b", "l", "e", " ", "t", "o">>,
       <<"I", " ", "a", "m", " ", "n", "o", "t", " ", "a", "b", "l", "e", " ", "t", "o">>,
       <<"I", " ", "w", "o", "n", "'", "t", " ", "b", "e", " ", "a", "b", "l", "e">>,
       <<"I", " ", "w", "i", "l", "l", " ", "n", "o", "t", " ", "b", "e", " ", "a", "b", "l", "e">>,
       <<"n", "o", "t", " ", "s", "o", "m", "e", "t", "h", "i", "n", "g", " ", "I", " ", "c", "a", "n", " ", "h", "e", "l", "p", " ", "w", "i", "t", "h">>,
       <<"I", "'", "m", " ", "s", "o", "r", "r", "y", ",", " ", "b", "u", "t", " ", "I", " ", "c", "a", "n", "'", "t">>,
       <<"I", " ", "a", "p", "o", "l", "o", "g", "i", "z", "e", ",", " ", "b", "u", "t", " ", "I", " ", "c", "a", "n", "n", "o", "t">> >>

\* Mutant: the output is compared as it is, without lower-casing it.
detectRefusalIn_CaseSensitive(patterns, output) ==
    \E k \in DOMAIN patterns : includes(output, toLowerCase(patterns[k]))

\* REFUSAL_PATTERNS.some(pattern => lowerOutput.includes(pattern.toLowerCase()))
detectRefusalIn(patterns, output) ==
    LET lowerOutput == toLowerCase(output)
    IN  \E k \in DOMAIN patterns : includes(lowerOutput, toLowerCase(patterns[k]))

\* What an agent run may print.
OutDone == <<"D", "o", "n", "e", ".">>
OutRefusal == <<"I", " ", "C", "A", "N", "N", "O", "T", " ", "A", "S", "S", "I", "S", "T">>
OutViolate == <<"v", "i", "o", "l", "a", "t", "e", "d">>
AgentOutputs == {OutDone, OutRefusal, OutViolate}

(***************************************************************************)
(* Job ledger: pure parts.                                                 *)
(***************************************************************************)
Terminal == {"completed", "failed"}

\* The record handleSubmit pushes.
newTask(id, now) ==
    [id |-> id, agent |-> "opencode", prompt |-> "prompt", startTime |-> now,
     status |-> "running", logFile |-> id]

\* let tasks = []; if (fs.existsSync(tasksFile)) tasks = JSON.parse(readFileSync)
readTasks(file) == IF file.exists THEN file.content ELSE <<>>

\* fs.writeFileSync(tasksFile, JSON.stringify(tasks))
writeTasks(content) == [exists |-> TRUE, content |-> content]

\* tasks.findIndex(t => t.id === taskId); 0 stands for -1 (indices are 1-based here)
findIndex(ts, id) ==
    IF \E i \in DOMAIN ts : ts[i].id = id
    THEN CHOOSE i \in DOMAIN ts : ts[i].id = id /\ \A k \in 1..(i - 1) : ts[k].id # id
    ELSE 0

\* Mutant: the status is set, the endTime is forgotten.
setStatusNoEndTime(t, status, endTime) ==
    [x \in DOMAIN t |-> IF x = "status" THEN status ELSE t[x]]

\* Mutant: the update also restarts the record's clock.
setStatusResetsStart(t, status, endTime) ==
    [x \in DOMAIN t \cup {"endTime"} |->
        IF x = "status" THEN status
        ELSE IF x \in {"endTime", "startTime"} THEN endTime ELSE t[x]]

\* tasks[idx].status = status; if (endTime) tasks[idx].endTime = endTime;
setStatus(t, status, endTime) ==
    LET t1 == [x \in DOMAIN t |-> IF x = "status" THEN status ELSE t[x]]
    IN  IF endTime # 0
        THEN [x \in DOMAIN t1 \cup {"endTime"} |-> IF x = "endTime" THEN endTime ELSE t1[x]]
        ELSE t1

\* Mutant: updateTask sets the status of every record of the array it read.
updatedTasksAll(ts, id, status, endTime) ==
    [i \in DOMAIN ts |-> setStatus(ts[i], status, endTime)]

\* The array updateTask writes back, given the array it read.
updatedTasks(ts, id, status, endTime) ==
    LET idx == findIndex(ts, id)
    IN  [i \in DOMAIN ts |-> IF i = idx THEN setStatus(ts[i], status, endTime) ELSE ts[i]]

\* result.exitCode === 0 ? "completed" : "failed"
statusOf(exitCode) == IF exitCode = 0 THEN "completed" ELSE "failed"

(***************************************************************************)
(* Job ledger: the steps of handleSubmit and of the runner's updateTask.   *)
(* Each job has its own submitter and its own detached runner process; the *)
(* file reads and writes of different processes interleave freely.         *)
(***************************************************************************)
InitLedger ==
    /\ clock = 1
    /\ tasksFile = [exists |-> FALSE, content |-> <<>>]
    /\ pc = [j \in Jobs |-> "idle"]
    /\ taskId = [j \in Jobs |-> 0]
    /\ tasks = [j \in Jobs |-> <<>>]
    /\ statusArg = [j \in Jobs |-> "running"]
    /\ endArg = [j \in Jobs |-> 0]

\* The clock advances.
Tick ==
    /\ clock < MaxClock
    /\ clock' = clock + 1
    /\ UNCHANGED <<tasksFile, pc, taskId, tasks, statusArg, endArg>>
    /\ UNCHANGED harvestVars
    /\ UNCHANGED <<driverVars, toolVars>>

\* const taskId = Date.now().toString()
SubmitStart(j) ==
    /\ pc[j] = "idle"
    /\ taskId' = [taskId EXCEPT ![j] = clock]
    /\ pc' = [pc EXCEPT ![j] = "sub_read"]
    /\ UNCHANGED <<clock, tasksFile, tasks, statusArg, endArg>>
    /\ UNCHANGED harvestVars
    /\ UNCHANGED <<driverVars, toolVars>>

\* tasks = JSON.parse(fs.readFileSync(tasksFile))
SubmitRead(j) ==
    /\ pc[j] = "sub_read"
    /\ tasks' = [tasks EXCEPT ![j] = readTasks(tasksFile)]
    /\ pc' = [pc EXCEPT ![j] = "sub_write"]
    /\ UNCHANGED <<clock, tasksFile, taskId, statusArg, endArg>>
    /\ UNCHANGED harvestVars
    /\ UNCHANGED <<driverVars, toolVars>>

\* tasks.push({... status: "running" ...}); fs.writeFileSync(tasksFile, ...);
\* then the runner script is written and spawned detached.
SubmitWrite(j) ==
    /\ pc[j] = "sub_write"
    /\ tasksFile' = writeTasks(Append(tasks[j], newTask(taskId[j], clock)))
    /\ tasks' = [tasks EXCEPT ![j] = <<>>]
    /\ pc' = [pc EXCEPT ![j] = "running"]
    /\ UNCHANGED <<clock, taskId, statusArg, endArg>>
    /\ UNCHANGED harvestVars
    /\ UNCHANGED <<driverVars, toolVars>>

\* updateTask(status, Date.now()), first half: the arguments are evaluated
\* and the file is read and parsed.
updateTaskRead(j, status) ==
    /\ statusArg' = [statusArg EXCEPT ![j] = status]
    /\ endArg' = [endArg EXCEPT ![j] = clock]
    /\ tasks' = [tasks EXCEPT ![j] = readTasks(tasksFile)]
    /\ pc' = [pc EXCEPT ![j] = "upd_write"]

\* updateTask, second half: if (idx !== -1) { mutate; writeFileSync }
updateTaskWrite(j) ==
    /\ pc[j] = "upd_write"
    /\ IF findIndex(tasks[j], taskId[j]) # 0
       THEN tasksFile' = writeTasks(updatedTasks(tasks[j], taskId[j], statusArg[j], endArg[j]))
       ELSE tasksFile' = tasksFile
    /\ tasks' = [tasks EXCEPT ![j] = <<>>]
    /\ pc' = [pc EXCEPT ![j] = "exited"]

\* A runner reaches the end of its main flow with some last exit code.
RunnerFinish(j) ==
    /\ pc[j] = "running"
    /\ \E exitCode \in ExitCodes : updateTaskRead(j, statusOf(exitCode))
    /\ UNCHANGED <<clock, tasksFile, taskId>>
    /\ UNCHANGED harvestVars
    /\ UNCHANGED <<driverVars, toolVars>>

RunnerWrite(j) ==
    /\ updateTaskWrite(j)
    /\ UNCHANGED <<clock, taskId, statusArg, endArg>>
    /\ UNCHANGED harvestVars
    /\ UNCHANGED <<driverVars, toolVars>>

\* The ledger file as a reader finds it between the two halves of
\* fs.writeFileSync (the file is opened with truncation, then written), or
\* after anything else left it unparseable: JSON.parse throws on it.
Malformed == [exists |-> TRUE, content |-> <<>>, malformed |-> TRUE]

isMalformed(file) == "malformed" \in DOMAIN file

\* readTasks of a malformed file is the empty array: handleSubmit catches the
\* error of JSON.parse and keeps tasks = []; in updateTask the error skips the
\* write, which is what the empty array does there (idx is -1).
\*
\* fs.writeFileSync, first half: process j has opened the file for writing.
WriteOpens(j) ==
    /\ \/ pc[j] = "sub_write"
       \/ pc[j] = "upd_write" /\ findIndex(tasks[j], taskId[j]) # 0
    /\ ~isMalformed(tasksFile)
    /\ tasksFile' = Malformed
    /\ UNCHANGED <<clock, pc, taskId, tasks, statusArg, endArg>>
    /\ UNCHANGED harvestVars
    /\ UNCHANGED <<driverVars, toolVars>>

\* Process j is killed before its fs.writeFileSync returns.
WriterKilled(j) ==
    /\ pc[j] \in {"sub_write", "upd_write"}
    /\ pc' = [pc EXCEPT ![j] = "killed"]
    /\ UNCHANGED <<clock, tasksFile, taskId, tasks, statusArg, endArg>>
    /\ UNCHANGED harvestVars
    /\ UNCHANGED <<driverVars, toolVars>>

\* The ledger before the first submission of this run: absent, or left
\* malformed by an earlier run.
InitLedgerFile ==
    /\ clock = 1
    /\ tasksFile \in {[exists |-> FALSE, content |-> <<>>], Malformed}
    /\ pc = [j \in Jobs |-> "idle"]
    /\ taskId = [j \in Jobs |-> 0]
    /\ tasks = [j \in Jobs |-> <<>>]
    /\ statusArg = [j \in Jobs |-> "running"]
    /\ endArg = [j \in Jobs |-> 0]

NextLedger ==
    \/ Tick
    \/ \E j \in Jobs : SubmitStart(j)
    \/ \E j \in Jobs : SubmitRead(j)
    \/ \E j \in Jobs : SubmitWrite(j)
    \/ \E j \in Jobs : RunnerFinish(j)
    \/ \E j \in Jobs : RunnerWrite(j)

(***************************************************************************)
(* Tool harvester: collectTools.                                           *)
(***************************************************************************)
FizzbuzzPy == <<"f", "i", "z", "z", "b", "u", "z", "z", ".", "p", "y">>
ToolSh == <<"t", "o", "o", "l", ".", "s", "h">>
RunnerJs == <<".", "r", "u", "n", "n", "e", "r", "-", "1", ".", "j", "s">>
NotesTxt == <<"n", "o", "t", "e", "s", ".", "t", "x", "t">>
Names == {FizzbuzzPy, ToolSh, RunnerJs, NotesTxt}

\* The order in which readdirSync lists the names.
NameOrder == <<RunnerJs, FizzbuzzPy, NotesTxt, ToolSh>>

Contents == 1..MaxContent

\* A directory entry: nothing, a directory, or a regular file with content.
Absent == [kind |-> "none", content |-> 0, exec |-> FALSE]
Directory == [kind |-> "dir", content |-> 0, exec |-> FALSE]
File(c, x) == [kind |-> "file", content |-> c, exec |-> x]
WorkspaceEntries == {Absent, Directory} \cup {File(c, FALSE) : c \in Contents}

toolExtensions == <<<<".", "s", "h">>, <<".", "t", "s">>, <<".", "j", "s">>, <<".", "p", "y">>>>
excludePatterns == <<<<".", "r", "u", "n", "n", "e", "r", "-">>, <<"n", "o", "d", "e", "_", "m", "o", "d", "u", "l", "e", "s">>, <<".", "g", "i", "t">>, <<".", "a", "g", "e", "n", "t", "i", "c">>>>

\* Mutant: no name is excluded.
isExcludedNever(file) == FALSE

\* excludePatterns.some(p => file.includes(p))
isExcluded(file) == \E k \in DOMAIN excludePatterns : includes(file, excludePatterns[k])

\* toolExtensions.some(ext => file.endsWith(ext))
hasToolExtension(file) == \E k \in DOMAIN toolExtensions : endsWith(file, toolExtensions[k])

\* fs.readdirSync(workingDirectory)
readdir(ws) == SelectSeq(NameOrder, LAMBDA n : ws[n].kind # "none")

\* Mutant: the copy is made whether or not the store has the name.
existsSyncNever(dir, file) == FALSE

\* fs.existsSync(destPath)
existsSync(dir, file) == dir[file].kind # "none"

\* The checks of one loop iteration: TRUE when the file is to be copied.
\* (exclude pattern, extension, statSync(srcPath).isFile(), existsSync(destPath))
toBeCopied(ws, st, file) ==
    /\ ~isExcluded(file)
    /\ hasToolExtension(file)
    /\ ws[file].kind = "file"
    /\ ~existsSync(st, file)

\* fs.copyFileSync(srcPath, destPath); fs.chmodSync(destPath, 0o755)
copyAndChmod(ws, st, file) == [st EXCEPT ![file] = File(ws[file].content, TRUE)]

InitHarvest ==
    /\ workspace = [n \in Names |-> Absent]
    /\ store = [n \in Names |-> Absent]
    /\ hpc = [j \in Jobs |-> "idle"]
    /\ hvariant = [j \in Jobs |-> "runner"]
    /\ listing = [j \in Jobs |-> <<>>]
    /\ hidx = [j \in Jobs |-> 1]
    /\ newTools = [j \in Jobs |-> <<>>]

\* collectTools starts: const files = fs.readdirSync(workingDirectory), or
\* readdirSync throws and the outer catch ends the call.
collectStart(j, v) ==
    /\ hpc[j] = "idle"
    /\ hvariant' = [hvariant EXCEPT ![j] = v]
    /\ hidx' = [hidx EXCEPT ![j] = 1]
    /\ newTools' = [newTools EXCEPT ![j] = <<>>]
    /\ \/ /\ listing' = [listing EXCEPT ![j] = readdir(workspace)]
          /\ hpc' = [hpc EXCEPT ![j] = "loop"]
       \/ /\ listing' = [listing EXCEPT ![j] = <<>>]
          /\ hpc' = [hpc EXCEPT ![j] = "done"]
    /\ UNCHANGED <<workspace, store>>

\* One iteration up to the existsSync check.  statSync throws on a name that
\* is gone: the runner's inner catch skips the file, the CLI's outer catch
\* ends the call.
collectCheck(j) ==
    /\ hpc[j] = "loop"
    /\ hidx[j] <= Len(listing[j])
    /\ LET file == listing[j][hidx[j]]
       IN  IF ~isExcluded(file) /\ hasToolExtension(file) /\ workspace[file].kind = "none"
           THEN IF hvariant[j] = "cli"
                THEN hpc' = [hpc EXCEPT ![j] = "done"] /\ hidx' = hidx
                ELSE hpc' = hpc /\ hidx' = [hidx EXCEPT ![j] = @ + 1]
           ELSE IF toBeCopied(workspace, store, file)
                THEN hpc' = [hpc EXCEPT ![j] = "copy"] /\ hidx' = hidx
                ELSE hpc' = hpc /\ hidx' = [hidx EXCEPT ![j] = @ + 1]
    /\ UNCHANGED <<workspace, store, hvariant, listing, newTools>>

\* copyFileSync + chmodSync + newTools.push of the iteration.
collectCopy(j) ==
    /\ hpc[j] = "copy"
    /\ workspace[listing[j][hidx[j]]].kind = "file"
    /\ store' = copyAndChmod(workspace, store, listing[j][hidx[j]])
    /\ newTools' = [newTools EXCEPT ![j] = Append(@, listing[j][hidx[j]])]
    /\ hidx' = [hidx EXCEPT ![j] = @ + 1]
    /\ hpc' = [hpc EXCEPT ![j] = "loop"]
    /\ UNCHANGED <<workspace, hvariant, listing>>

\* copyFileSync throws (source gone, destination not writable): the runner's
\* inner catch goes on with the next file, the CLI's outer catch ends the call.
collectCopyFails(j) ==
    /\ hpc[j] = "copy"
    /\ IF hvariant[j] = "cli"
       THEN hpc' = [hpc EXCEPT ![j] = "done"] /\ hidx' = hidx
       ELSE hpc' = [hpc EXCEPT ![j] = "loop"] /\ hidx' = [hidx EXCEPT ![j] = @ + 1]
    /\ UNCHANGED <<workspace, store, hvariant, listing, newTools>>

\* The loop is over.
collectEnd(j) ==
    /\ hpc[j] = "loop"
    /\ hidx[j] > Len(listing[j])
    /\ hpc' = [hpc EXCEPT ![j] = "done"]
    /\ UNCHANGED <<workspace, store, hvariant, listing, hidx, newTools>>

(***************************************************************************)
(* The sandbox helper CLI is a program of its own; while the other         *)
(* programs run it has not been started.                                   *)
(***************************************************************************)
Gone == [exists |-> FALSE, bytes |-> <<>>]

\* What a clearTasks call has done so far to the ledger file and to the logs
\* directory: nothing yet ("kept"), found it absent, or removed it.
\* records: the ids of the records in the ledger file it removed.
Untouched == [ledger |-> "kept", logs |-> "kept", records |-> {}]

\* detectRefusal has not been called.
NotChecked == [by |-> "none", refusal |-> FALSE]

\* The refusal check is not exercised on its own.
InitScanIdle ==
    /\ agentOutput = <<>>
    /\ isRefusal = NotChecked

\* The task list is not open.
InitPurgeIdle ==
    /\ logsDir = FALSE
    /\ ppc = "off"
    /\ toast = "none"
    /\ removed = Untouched

InitHelperIdle ==
    /\ hcpc = "off"
    /\ opts = [push |-> 0, cmd |-> FALSE, pull |-> 0, keep |-> FALSE]
    /\ localFile = <<>>
    /\ remoteFile = Gone
    /\ outFile = Gone
    /\ b64 = <<>>
    /\ offset = 0
    /\ calls = <<>>
    /\ processExitCode = 0
    /\ pushIdx = 0
    /\ pullIdx = 0

(***************************************************************************)
(* Execution driver: the runner script of the Docker variant               *)
(* (src/ask-agent.tsx), the runner script of the remote variant and        *)
(* main() of scripts/cli.ts.  The driver of this part is job DJ.           *)
(***************************************************************************)
DJ == Min(Jobs)

\* A JavaScript value that may be null or undefined.
Null == [null |-> TRUE, value |-> 0]
Num(n) == [null |-> FALSE, value |-> n]

\* x || d, for a number or null x
orElse(x, d) == IF x.null \/ x.value = 0 THEN d ELSE x.value

\* x ?? y ?? d
coalesce(x, y, d) == IF ~x.null THEN x.value ELSE IF ~y.null THEN y.value ELSE d

\* Mutant: a missing exit status counts as a failure.
exitCodeOfStatusStrict(status) == IF status.null THEN 1 ELSE status.value

\* exitCode: result.status || 0  (runner)  /  exitCode: code || 0  (CLI)
exitCodeOfStatus(status) == orElse(status, 0)

\* result?.exitCode ?? result?.exit_code ?? 0
exitCodeOfResponse(res) == coalesce(res.exitCode, res.exit_code, 0)

\* The responses executeCommand may return for a command that exits with c.
Responses(c) ==
    { [exitCode |-> Num(c), exit_code |-> Null],
      [exitCode |-> Null, exit_code |-> Num(c)],
      [exitCode |-> Null, exit_code |-> Null] }

\* detectRefusal of the driver in use
detectRefusal(v, output) ==
    detectRefusalIn(IF v = "remote" THEN REFUSAL_PATTERNS_REMOTE ELSE REFUSAL_PATTERNS, output)

\* Mutant: the retry does not ask whether a fallback model is configured.
shouldRetryUnconfigured(v, retry, output) == detectRefusal(v, output)

\* if (retryModel && detectRefusal(result.output))
shouldRetry(v, retry, output) == retry /\ detectRefusal(v, output)

\* "\nError: " + err.message
ErrorText == <<"E", "r", "r", "o", "r">>

NoResult == [exitCode |-> 0, output |-> <<>>]
NoCall == [state |-> "none", output |-> <<>>, chunks |-> 0, timer |-> "none",
           sigterm |-> FALSE, ignoresTerm |-> FALSE, code |-> Null]

\* The model the launch at position p uses.
modelAt(p) == IF p = "primary" THEN "primary" ELSE "fallback"

\* Mutant: the refusal check is made again after the fallback attempt.
afterAttemptLoop(v, p) == "check"

\* Where the flow goes when the attempt launched at position p has returned.
afterAttempt(v, p) ==
    IF p = "primary" THEN "check"
    ELSE IF v = "remote" THEN "delete" ELSE "collect"

\* Where the flow goes after the refusal check.
afterCheck(v, retry) ==
    IF retry THEN (IF v = "remote" THEN "cleanupState" ELSE "fallback")
    ELSE (IF v = "remote" THEN "delete" ELSE "collect")

\* Where the flow goes after the tool collection.
afterCollect(v) == IF v = "cli" THEN "exit" ELSE "cleanup"

\* What an agent run may leave in the workspace: nothing new, or one file.
\* The driver never reads what a file holds, so one content stands for all.
AgentEffects(ws) ==
    {ws} \cup {[ws EXCEPT ![n] = File(Min(Contents), FALSE)] : n \in Names}

\* No driver has been started.
InitDriverOff ==
    /\ variant = "docker"
    /\ retryModel = FALSE
    /\ useRayBuddy = FALSE
    /\ dpc = "off"
    /\ launched = <<>>
    /\ attempts = <<>>
    /\ result = NoResult
    /\ caught = FALSE
    /\ procExit = Null
    /\ child = <<>>
    /\ gw = NoCall
    /\ sandbox = "none"
    /\ imageSteps = <<>>
    /\ image = "unknown"
    /\ gitSteps = <<>>
    /\ collectFailed = FALSE
    /\ logFile = <<>>

InitDriverIdle == InitDriverOff /\ InitHelperIdle /\ InitPurgeIdle /\ InitScanIdle

\* A job is dispatched: the CLI is started, or the form is submitted.
InitDriver ==
    /\ InitLedger
    /\ InitHarvest
    /\ variant \in {"cli", "docker", "remote"}
    /\ retryModel \in BOOLEAN
    /\ useRayBuddy \in (IF variant = "cli" THEN BOOLEAN ELSE {FALSE})
    /\ dpc = IF variant = "remote" THEN "create" ELSE "dockerInfo"
    /\ launched = <<>>
    /\ attempts = <<>>
    /\ result = NoResult
    /\ caught = FALSE
    /\ procExit = Null
    /\ child = <<>>
    /\ gw = NoCall
    /\ sandbox = "none"
    /\ imageSteps = <<>>
    /\ image = "unknown"
    /\ gitSteps = <<>>
    /\ collectFailed = FALSE
    /\ InitHelperIdle
    /\ InitPurgeIdle
    /\ InitScanIdle
    /\ logFile = <<>>

\* The runner is a detached process spawned at the end of handleSubmit; the
\* CLI has no ledger.
runnerActive == variant = "cli" \/ pc[DJ] = "running"

DSubmitStart == variant # "cli" /\ SubmitStart(DJ)
DSubmitRead == variant # "cli" /\ SubmitRead(DJ)
DSubmitWrite == variant # "cli" /\ SubmitWrite(DJ)

\* Mutant: both attempts are logged under the label of the primary attempt.
outputLabelSame(p) == "Output:"

\* log("Output:\n" + result.output) after the primary attempt,
\* log("Retry Output:\n" + result.output) after the fallback attempt
outputLabel(p) == IF p = "primary" THEN "Output:" ELSE "Retry Output:"

\* The job's log after the attempt launched at position p has returned with
\* this output: the runners append it under its label before they go on; the
\* CLI has no log file and prints the exit code only.
logged(v, lines, p, output) ==
    IF v = "cli" THEN lines
    ELSE Append(lines, [label |-> outputLabel(p), text |-> output])

\* Mutant: the result of the fallback attempt is dropped; the job goes on
\* with the result of the primary attempt.
attemptReturnsKeepFirst(r, how, p) ==
    /\ result' = IF p = "primary" THEN r ELSE result
    /\ attempts' = Append(attempts, [exitCode |-> r.exitCode, output |-> r.output,
                                     how |-> how])
    /\ logFile' = logged(variant, logFile, p, r.output)
    /\ dpc' = afterAttempt(variant, p)

\* The attempt has returned with result r; how it ended is kept beside it.
attemptReturns(r, how, p) ==
    /\ result' = r
    /\ attempts' = Append(attempts, [exitCode |-> r.exitCode, output |-> r.output,
                                     how |-> how])
    /\ logFile' = logged(variant, logFile, p, r.output)
    /\ dpc' = afterAttempt(variant, p)

\* execSync("docker info"): the runner throws, the CLI exits with 1.
DDockerInfo ==
    /\ runnerActive
    /\ dpc = "dockerInfo"
    /\ \E ok \in BOOLEAN :
          IF ok THEN dpc' = "ensureImage" /\ procExit' = procExit
          ELSE IF variant = "cli" THEN dpc' = "done" /\ procExit' = Num(1)
          ELSE dpc' = "catch" /\ procExit' = procExit
    /\ UNCHANGED <<variant, retryModel, launched, attempts, result, caught, child, gw,
                   sandbox, imageSteps, image, useRayBuddy,
                   gitSteps, collectFailed, otherVars>>
    /\ UNCHANGED <<ledgerVars, harvestVars>>

\* Mutant: an image that passed the smoke test is rebuilt all the same.
ensureStepsRebuilds(inspectOk, testOk, dockerfile, buildOk) ==
    <<[cmd |-> "inspect", ok |-> inspectOk]>>
    \o (IF inspectOk THEN <<[cmd |-> "test", ok |-> testOk]>> ELSE <<>>)
    \o <<[cmd |-> "dockerfile", ok |-> dockerfile]>>
    \o (IF dockerfile THEN <<[cmd |-> "build", ok |-> buildOk]>> ELSE <<>>)

\* The steps ensureDockerImage takes, given what each would answer: docker
\* image inspect; docker run ... echo test if the inspect exited 0; unless
\* both exited 0, fs.existsSync(dockerfilePath) and, with a Dockerfile,
\* docker build.  ok: exit status 0, or the Dockerfile is there.
ensureSteps(inspectOk, testOk, dockerfile, buildOk) ==
    <<[cmd |-> "inspect", ok |-> inspectOk]>>
    \o (IF inspectOk THEN <<[cmd |-> "test", ok |-> testOk]>> ELSE <<>>)
    \o (IF inspectOk /\ testOk THEN <<>> ELSE <<[cmd |-> "dockerfile", ok |-> dockerfile]>>)
    \o (IF (inspectOk /\ testOk) \/ ~dockerfile THEN <<>>
        ELSE <<[cmd |-> "build", ok |-> buildOk]>>)

\* Mutant: the exit status of the build is not looked at.
ensureUsableUnchecked(inspectOk, testOk, dockerfile, buildOk) ==
    (inspectOk /\ testOk) \/ dockerfile

\* Whether ensureDockerImage returns normally.
ensureUsable(inspectOk, testOk, dockerfile, buildOk) ==
    (inspectOk /\ testOk) \/ (dockerfile /\ buildOk)

\* The state ensureDockerImage leaves the image in.
imageAfter(inspectOk, testOk, dockerfile, buildOk) ==
    IF inspectOk /\ testOk THEN "usable"
    ELSE IF dockerfile THEN (IF buildOk THEN "usable" ELSE "buildFailed")
    ELSE IF inspectOk THEN "broken" ELSE "absent"

\* ensureDockerImage(): inspect, smoke test, build; a missing Dockerfile or a
\* failed build throws in the runner and exits with 1 in the CLI.
DEnsureImage ==
    /\ dpc = "ensureImage"
    /\ \E inspectOk, testOk, dockerfile, buildOk \in BOOLEAN :
          /\ imageSteps' = ensureSteps(inspectOk, testOk, dockerfile, buildOk)
          /\ image' = imageAfter(inspectOk, testOk, dockerfile, buildOk)
          /\ IF ensureUsable(inspectOk, testOk, dockerfile, buildOk)
             THEN dpc' = "primary" /\ procExit' = procExit
             ELSE IF variant = "cli" THEN dpc' = "done" /\ procExit' = Num(1)
             ELSE dpc' = "catch" /\ procExit' = procExit
    /\ UNCHANGED <<variant, retryModel, launched, attempts, result, caught, child, gw,
                   sandbox, useRayBuddy, gitSteps, collectFailed, otherVars>>
    /\ UNCHANGED <<ledgerVars, harvestVars>>

\* runDocker of the runner: spawnSync("docker", ..., {timeout: 600000}) returns
\* when the child is gone.  The child exits by itself; or the timeout kills
\* it (status null, or the code it exits with on SIGTERM); or it cannot be
\* launched (status null, no stdout, no stderr).
DSpawnSync ==
    /\ variant = "docker"
    /\ dpc \in {"primary", "fallback"}
    /\ launched' = Append(launched, modelAt(dpc))
    /\ \/ \E c \in ExitCodes, out \in AgentOutputs, ws \in AgentEffects(workspace) :
            /\ attemptReturns([exitCode |-> exitCodeOfStatus(Num(c)), output |-> out],
                              "exit", dpc)
            /\ child' = Append(child, "exited")
            /\ workspace' = ws
       \/ \E st \in {Null} \cup {Num(c) : c \in ExitCodes}, out \in AgentOutputs \cup {<<>>} :
            /\ attemptReturns([exitCode |-> exitCodeOfStatus(st), output |-> out],
                              "timeout", dpc)
            /\ child' = Append(child, "exited")
            /\ workspace' = workspace
       \/ /\ attemptReturns([exitCode |-> exitCodeOfStatus(Null), output |-> <<>>],
                            "nolaunch", dpc)
          /\ child' = Append(child, "nolaunch")
          /\ workspace' = workspace
    /\ UNCHANGED <<variant, retryModel, caught, procExit, gw, sandbox, imageSteps, image, useRayBuddy,
                   gitSteps, collectFailed, toolVars>>
    /\ UNCHANGED <<ledgerVars, store, hpc, hvariant, listing, hidx, newTools>>

\* if (retryModel && detectRefusal(result.output)) { ... retry ... }
DCheck ==
    /\ dpc = "check"
    /\ dpc' = afterCheck(variant, shouldRetry(variant, retryModel, result.output))
    /\ UNCHANGED <<variant, retryModel, launched, attempts, result, caught, procExit,
                   child, gw, sandbox, imageSteps, image, useRayBuddy,
                   gitSteps, collectFailed, otherVars>>
    /\ UNCHANGED <<ledgerVars, harvestVars>>

\* Mutant: the tools are collected whatever the exit code.
succeededAlways(r) == TRUE

\* result.exitCode === 0
succeeded(r) == r.exitCode = 0

\* if (result.exitCode === 0) collectTools();   -- the call is skipped
DCollectSkip ==
    /\ dpc = "collect"
    /\ ~succeeded(result)
    /\ dpc' = afterCollect(variant)
    /\ UNCHANGED <<variant, retryModel, launched, attempts, result, caught, procExit,
                   child, gw, sandbox, imageSteps, image, useRayBuddy,
                   gitSteps, collectFailed, otherVars>>
    /\ UNCHANGED <<ledgerVars, harvestVars>>

\* if (result.exitCode === 0) collectTools();   -- the call is made
DCollectStart ==
    /\ dpc = "collect"
    /\ succeeded(result)
    /\ collectStart(DJ, IF variant = "cli" THEN "cli" ELSE "runner")
    /\ collectFailed' = (hpc'[DJ] = "done")
    /\ dpc' = "collecting"
    /\ UNCHANGED <<variant, retryModel, launched, attempts, result, caught, procExit,
                   child, gw, sandbox, imageSteps, image, useRayBuddy,
                   gitSteps, otherVars>>
    /\ UNCHANGED ledgerVars

\* statSync(srcPath) of the current iteration throws: the name is gone.
statThrows(ws, file) ==
    ~isExcluded(file) /\ hasToolExtension(file) /\ ws[file].kind = "none"

DCollectCheck ==
    /\ dpc = "collecting"
    /\ collectCheck(DJ)
    /\ collectFailed' = (collectFailed \/ statThrows(workspace, listing[DJ][hidx[DJ]]))
    /\ UNCHANGED <<ledgerVars, flowVars, gitSteps, otherVars>>

DCollectCopy ==
    /\ dpc = "collecting"
    /\ collectCopy(DJ)
    /\ UNCHANGED <<ledgerVars, driverVars, toolVars>>

DCollectCopyFails ==
    /\ dpc = "collecting"
    /\ collectCopyFails(DJ)
    /\ collectFailed' = TRUE
    /\ UNCHANGED <<ledgerVars, flowVars, gitSteps, otherVars>>

\* if (useRayBuddy && newTools.length > 0)
syncDue(v, ray, tools) == v = "cli" /\ ray /\ tools # <<>>

\* Mutant: the commit is made without looking at the status output.
syncStepsAlwaysCommit(addOk, statusOk, dirty, commitOk, pushOk) ==
    <<[cmd |-> "add", ok |-> addOk]>>
    \o (IF addOk THEN <<[cmd |-> "status", ok |-> statusOk,
                         changes |-> statusOk /\ dirty]>> ELSE <<>>)
    \o (IF addOk /\ statusOk THEN <<[cmd |-> "commit", ok |-> commitOk]>> ELSE <<>>)
    \o (IF addOk /\ statusOk /\ commitOk
        THEN <<[cmd |-> "push", ok |-> pushOk]>> ELSE <<>>)

\* The git commands syncToolsToRayBuddy runs, each with whether it succeeded:
\* add -A; status --porcelain (changes: its trimmed output is not empty);
\* commit if the status is not empty; push.
syncSteps(addOk, statusOk, dirty, commitOk, pushOk) ==
    <<[cmd |-> "add", ok |-> addOk]>>
    \o (IF addOk THEN <<[cmd |-> "status", ok |-> statusOk,
                         changes |-> statusOk /\ dirty]>> ELSE <<>>)
    \o (IF addOk /\ statusOk /\ dirty THEN <<[cmd |-> "commit", ok |-> commitOk]>> ELSE <<>>)
    \o (IF addOk /\ statusOk /\ dirty /\ commitOk
        THEN <<[cmd |-> "push", ok |-> pushOk]>> ELSE <<>>)

\* What syncToolsToRayBuddy returns: false from its catch block.
syncReturns(addOk, statusOk, dirty, commitOk, pushOk) ==
    addOk /\ statusOk /\ (~dirty \/ (commitOk /\ pushOk))

\* The loop of the CLI's collectTools is over and new tools go to the shared
\* repository: syncToolsToRayBuddy(newTools), a failure logged as a warning.
DSync ==
    /\ dpc = "collecting"
    /\ hpc[DJ] = "loop"
    /\ hidx[DJ] > Len(listing[DJ])
    /\ syncDue(variant, useRayBuddy, newTools[DJ])
    /\ \E addOk, statusOk, dirty, commitOk, pushOk \in BOOLEAN :
          /\ gitSteps' = syncSteps(addOk, statusOk, dirty, commitOk, pushOk)
          /\ collectFailed' =
                (collectFailed \/ ~syncReturns(addOk, statusOk, dirty, commitOk, pushOk))
    /\ hpc' = [hpc EXCEPT ![DJ] = "done"]
    /\ UNCHANGED <<workspace, store, hvariant, listing, hidx, newTools>>
    /\ UNCHANGED <<ledgerVars, flowVars, otherVars>>

DCollectEnd ==
    /\ dpc = "collecting"
    /\ ~syncDue(variant, useRayBuddy, newTools[DJ])
    /\ collectEnd(DJ)
    /\ UNCHANGED <<ledgerVars, driverVars, toolVars>>

\* Mutant: an error inside collectTools leaves the call as an exception.
afterCollectToolsThrows(v, failed) == IF failed THEN "catch" ELSE afterCollect(v)

\* collectTools catches whatever is thrown inside it and returns normally.
afterCollectTools(v, failed) == afterCollect(v)

\* collectTools has returned.
DCollectReturn ==
    /\ dpc = "collecting"
    /\ hpc[DJ] = "done"
    /\ hpc' = [hpc EXCEPT ![DJ] = "idle"]
    /\ hvariant' = [hvariant EXCEPT ![DJ] = "runner"]
    /\ listing' = [listing EXCEPT ![DJ] = <<>>]
    /\ hidx' = [hidx EXCEPT ![DJ] = 1]
    /\ newTools' = [newTools EXCEPT ![DJ] = <<>>]
    /\ dpc' = afterCollectTools(variant, collectFailed)
    /\ UNCHANGED <<variant, retryModel, launched, attempts, result, caught, procExit,
                   child, gw, sandbox, imageSteps, image, useRayBuddy,
                   gitSteps, collectFailed, otherVars>>
    /\ UNCHANGED <<ledgerVars, workspace, store>>

\* execSync("rm -rf .opencode ..."), its failure caught and logged.
DCleanup ==
    /\ dpc = "cleanup"
    /\ dpc' = "update"
    /\ UNCHANGED <<variant, retryModel, launched, attempts, result, caught, procExit,
                   child, gw, sandbox, imageSteps, image, useRayBuddy,
                   gitSteps, collectFailed, otherVars>>
    /\ UNCHANGED <<ledgerVars, harvestVars>>

\* updateTask(result.exitCode === 0 ? "completed" : "failed", Date.now())
DUpdate ==
    /\ dpc = "update"
    /\ updateTaskRead(DJ, statusOf(result.exitCode))
    /\ dpc' = "updwrite"
    /\ UNCHANGED <<variant, retryModel, launched, attempts, result, caught, procExit,
                   child, gw, sandbox, imageSteps, image, useRayBuddy,
                   gitSteps, collectFailed, otherVars>>
    /\ UNCHANGED <<clock, tasksFile, taskId, harvestVars>>

\* catch (err) { log(...); updateTask("failed", Date.now()); ...
DCatch ==
    /\ dpc = "catch"
    /\ caught' = TRUE
    /\ updateTaskRead(DJ, "failed")
    /\ dpc' = "updwrite"
    /\ UNCHANGED <<variant, retryModel, launched, attempts, result, procExit,
                   child, gw, sandbox, imageSteps, image, useRayBuddy,
                   gitSteps, collectFailed, otherVars>>
    /\ UNCHANGED <<clock, tasksFile, taskId, harvestVars>>

DUpdateWrite ==
    /\ dpc = "updwrite"
    /\ updateTaskWrite(DJ)
    /\ dpc' = "exit"
    /\ UNCHANGED <<variant, retryModel, launched, attempts, result, caught, procExit,
                   child, gw, sandbox, imageSteps, image, useRayBuddy,
                   gitSteps, collectFailed, otherVars>>
    /\ UNCHANGED <<clock, taskId, statusArg, endArg, harvestVars>>

\* process.exit(result.exitCode), or process.exit(1) in the catch block
DExit ==
    /\ dpc = "exit"
    /\ procExit' = Num(IF caught THEN 1 ELSE result.exitCode)
    /\ dpc' = "done"
    /\ UNCHANGED <<variant, retryModel, launched, attempts, result, caught,
                   child, gw, sandbox, imageSteps, image, useRayBuddy,
                   gitSteps, collectFailed, otherVars>>
    /\ UNCHANGED <<ledgerVars, harvestVars>>

(***************************************************************************)
(* The remote variant: sandbox create, install, upload, run, delete.       *)
(***************************************************************************)
\* await daytona.create({ language: "typescript" })
\* One entry of the log of remote calls: the operation, the offset of the
\* chunk it carried, what the program saw of it and whether it took effect.
call(op, at, out, took) == [op |-> op, at |-> at, out |-> out, took |-> took]

\* Mutant: the flow goes on after a create call that threw.
afterCreateIgnoresThrow(threw) == "install"

\* Where the flow goes after daytona.create: a throw ends in main's catch.
afterCreate(threw) == IF threw THEN "catch" ELSE "install"

\* The log of sandbox calls with one more call, which threw or returned.
issued(op, threw) ==
    Append(calls, call(op, 0, IF threw THEN "threw" ELSE "zero", ~threw))

DCreate ==
    /\ runnerActive
    /\ dpc = "create"
    /\ \E threw \in BOOLEAN :
          /\ sandbox' = IF threw THEN sandbox ELSE "created"
          /\ calls' = issued("create", threw)
          /\ dpc' = afterCreate(threw)
    /\ UNCHANGED <<variant, retryModel, launched, attempts, result, caught, procExit,
                   child, gw, imageSteps, image, useRayBuddy,
                   gitSteps, collectFailed, besideCalls, logFile>>
    /\ UNCHANGED <<ledgerVars, harvestVars>>

\* await sandbox.process.executeCommand("bun add -g opencode-ai 2>&1"): the
\* response is not looked at; the call itself may throw.
DInstall ==
    /\ dpc = "install"
    /\ \/ \E c \in ExitCodes :
            /\ sandbox' = IF c = 0 THEN "ready" ELSE sandbox
            /\ calls' = Append(calls, call("install", 0,
                                           IF c = 0 THEN "zero" ELSE "nonzero", c = 0))
            /\ dpc' = "upload"
       \/ sandbox' = sandbox /\ calls' = issued("install", TRUE) /\ dpc' = "catch"
    /\ UNCHANGED <<variant, retryModel, launched, attempts, result, caught, procExit,
                   child, gw, imageSteps, image, useRayBuddy,
                   gitSteps, collectFailed, besideCalls, logFile>>
    /\ UNCHANGED <<ledgerVars, harvestVars>>

\* Mutant: the run goes on after an upload that threw.
afterUploadGoesOn(threw) == "primary"

\* Where the flow goes after the uploads: a throw of uploadFile is not caught
\* before the catch block of main.
afterUpload(threw) == IF threw THEN "catch" ELSE "primary"

\* if (fileContents.length > 0) for (const file of fileContents) await
\* uploadFile(...): there are no context files, or all uploads return (every
\* chunk command has reported exit code 0, which is all `took` says here), or
\* one of them throws.
DUpload ==
    /\ dpc = "upload"
    /\ \/ calls' = calls /\ dpc' = afterUpload(FALSE)
       \/ \E threw \in BOOLEAN :
            /\ calls' = Append(calls, [op |-> "upload", at |-> 0,
                                       out |-> IF threw THEN "threw" ELSE "zero",
                                       took |-> ~threw])
            /\ dpc' = afterUpload(threw)
    /\ UNCHANGED <<variant, retryModel, launched, attempts, result, caught, procExit,
                   child, gw, sandbox, imageSteps, image, useRayBuddy,
                   gitSteps, collectFailed>>
    /\ UNCHANGED <<besideCalls, logFile>>
    /\ UNCHANGED <<ledgerVars, harvestVars>>

\* result = await sandbox.process.executeCommand(command);
\* exitCode = result?.exitCode ?? result?.exit_code ?? 0; output = ...
DRemoteRun ==
    /\ variant = "remote"
    /\ dpc \in {"primary", "fallback"}
    /\ launched' = Append(launched, modelAt(dpc))
    /\ \/ \E c \in ExitCodes, out \in AgentOutputs : \E res \in Responses(c) :
            /\ attemptReturns([exitCode |-> exitCodeOfResponse(res), output |-> out],
                              "exit", dpc)
            /\ calls' = issued("run", FALSE)
       \/ /\ dpc' = "catch"
          /\ calls' = issued("run", TRUE)
          /\ UNCHANGED <<result, attempts, logFile>>
    /\ UNCHANGED <<variant, retryModel, caught, procExit, child, gw, sandbox, imageSteps, image, useRayBuddy,
                   gitSteps, collectFailed, besideCalls>>
    /\ UNCHANGED <<ledgerVars, harvestVars>>

\* The cleanup command before the retry ("pkill -f opencode || true; rm -rf
\* ..."), then the one second delay.
DCleanupState ==
    /\ dpc = "cleanupState"
    /\ \E threw \in BOOLEAN :
          /\ calls' = issued("cleanup", threw)
          /\ dpc' = IF threw THEN "catch" ELSE "fallback"
    /\ UNCHANGED <<variant, retryModel, launched, attempts, result, caught, procExit,
                   child, gw, sandbox, imageSteps, image, useRayBuddy,
                   gitSteps, collectFailed, besideCalls, logFile>>
    /\ UNCHANGED <<ledgerVars, harvestVars>>

\* await sandbox.delete()
DDelete ==
    /\ dpc = "delete"
    /\ \E threw \in BOOLEAN :
          /\ sandbox' = IF threw THEN "deleteFailed" ELSE "deleted"
          /\ calls' = issued("delete", threw)
          /\ dpc' = IF threw THEN "catch" ELSE "update"
    /\ UNCHANGED <<variant, retryModel, launched, attempts, result, caught, procExit,
                   child, gw, imageSteps, image, useRayBuddy,
                   gitSteps, collectFailed, besideCalls, logFile>>
    /\ UNCHANGED <<ledgerVars, harvestVars>>

(***************************************************************************)
(* The process gateway of the CLI: runDocker with spawn, a timer and the   *)
(* close and error handlers.                                               *)
(***************************************************************************)
awaitOf(p) == IF p = "primary" THEN "awaitPrimary" ELSE "awaitFallback"
launchOf(p) == IF p = "awaitPrimary" THEN "primary" ELSE "fallback"

setLast(seq, v) == [seq EXCEPT ![Len(seq)] = v]

\* Mutant: the promise is resolved by an event that does not wait for the
\* end of the process.
closeEmittedEarly(g) == g.state \in {"running", "exited"}

\* proc.on("close", ...): emitted once the process has ended and its stdio
\* streams are closed.
closeEmitted(g) == g.state = "exited"

\* const proc = spawn("docker", dockerArgs, ...); the handlers are set and the
\* timer is armed.  The launch may fail (the error event follows).
GSpawn ==
    /\ variant = "cli"
    /\ dpc \in {"primary", "fallback"}
    /\ launched' = Append(launched, modelAt(dpc))
    /\ \E ok \in BOOLEAN, ign \in BOOLEAN :
          /\ ok \/ ~ign
          /\ gw' = [state |-> IF ok THEN "running" ELSE "nolaunch", output |-> <<>>,
                    chunks |-> 0, timer |-> "armed", sigterm |-> FALSE,
                    ignoresTerm |-> ign, code |-> Null]
          /\ child' = Append(child, IF ok THEN "running" ELSE "nolaunch")
    /\ dpc' = awaitOf(dpc)
    /\ UNCHANGED <<variant, retryModel, attempts, result, caught, procExit, sandbox,
                   imageSteps, image, useRayBuddy,
                   gitSteps, collectFailed, otherVars>>
    /\ UNCHANGED <<ledgerVars, harvestVars>>

\* proc.stdout.on("data") / proc.stderr.on("data"): output += text
GData ==
    /\ gw.state = "running"
    /\ gw.chunks < MaxChunks
    /\ \E text \in AgentOutputs :
          gw' = [gw EXCEPT !.output = @ \o text, !.chunks = @ + 1]
    /\ UNCHANGED <<variant, retryModel, dpc, launched, attempts, result, caught,
                   procExit, child, sandbox, imageSteps, image, useRayBuddy,
                   gitSteps, collectFailed, otherVars>>
    /\ UNCHANGED <<ledgerVars, harvestVars>>

\* setTimeout(() => { proc.kill("SIGTERM"); log(...) }, timeout)
GTimerFires ==
    /\ gw.timer = "armed"
    /\ gw' = [gw EXCEPT !.timer = "fired", !.sigterm = (gw.state = "running")]
    /\ UNCHANGED <<variant, retryModel, dpc, launched, attempts, result, caught,
                   procExit, child, sandbox, imageSteps, image, useRayBuddy,
                   gitSteps, collectFailed, otherVars>>
    /\ UNCHANGED <<ledgerVars, harvestVars>>

\* The child exits by itself with a code (also after a SIGTERM it handles).
GChildExits ==
    /\ gw.state = "running"
    /\ \E c \in ExitCodes, ws \in AgentEffects(workspace) :
          /\ gw' = [gw EXCEPT !.state = "exited", !.code = Num(c)]
          /\ workspace' = ws
    /\ child' = setLast(child, "exited")
    /\ UNCHANGED <<variant, retryModel, dpc, launched, attempts, result, caught,
                   procExit, sandbox, imageSteps, image, useRayBuddy,
                   gitSteps, collectFailed, otherVars>>
    /\ UNCHANGED <<ledgerVars, store, hpc, hvariant, listing, hidx, newTools>>

\* The child is terminated by the SIGTERM: no exit code, signal SIGTERM.
GChildKilled ==
    /\ gw.state = "running"
    /\ gw.sigterm
    /\ ~gw.ignoresTerm
    /\ gw' = [gw EXCEPT !.state = "exited", !.code = Null]
    /\ child' = setLast(child, "exited")
    /\ UNCHANGED <<variant, retryModel, dpc, launched, attempts, result, caught,
                   procExit, sandbox, imageSteps, image, useRayBuddy,
                   gitSteps, collectFailed, otherVars>>
    /\ UNCHANGED <<ledgerVars, harvestVars>>

\* proc.on("close", (code) => { clearTimeout(timeoutId);
\*                              resolve({ exitCode: code || 0, output }) })
\* and main() goes on after its await.
GClose ==
    /\ dpc \in {"awaitPrimary", "awaitFallback"}
    /\ closeEmitted(gw)
    /\ attemptReturns([exitCode |-> exitCodeOfStatus(gw.code), output |-> gw.output],
                      IF gw.sigterm THEN "timeout" ELSE "exit", launchOf(dpc))
    /\ gw' = NoCall
    /\ UNCHANGED <<variant, retryModel, launched, caught, procExit, child, sandbox,
                   imageSteps, image, useRayBuddy,
                   gitSteps, collectFailed, toolVars>>
    /\ UNCHANGED <<ledgerVars, harvestVars>>

\* proc.on("error", (err) => { clearTimeout(timeoutId); output += ...;
\*                             resolve({ exitCode: 1, output }) })
GError ==
    /\ dpc \in {"awaitPrimary", "awaitFallback"}
    /\ gw.state = "nolaunch"
    /\ attemptReturns([exitCode |-> 1, output |-> gw.output \o ErrorText],
                      "nolaunch", launchOf(dpc))
    /\ gw' = NoCall
    /\ UNCHANGED <<variant, retryModel, launched, caught, procExit, child, sandbox,
                   imageSteps, image, useRayBuddy,
                   gitSteps, collectFailed, toolVars>>
    /\ UNCHANGED <<ledgerVars, harvestVars>>

\* The steps of the driver itself.
DriverStep ==
    \/ DSubmitStart \/ DSubmitRead \/ DSubmitWrite
    \/ DDockerInfo \/ DEnsureImage \/ DSpawnSync \/ DCheck
    \/ DCollectSkip \/ DCollectStart \/ DCollectCheck \/ DCollectCopy
    \/ DCollectCopyFails \/ DSync \/ DCollectEnd \/ DCollectReturn
    \/ DCleanup \/ DUpdate \/ DCatch \/ DUpdateWrite \/ DExit
    \/ DCreate \/ DInstall \/ DUpload \/ DRemoteRun \/ DCleanupState \/ DDelete
    \/ GSpawn \/ GTimerFires \/ GClose \/ GError

\* What the child process of the CLI does.
ChildStep == GData \/ GChildExits \/ GChildKilled

NextDriver == DriverStep \/ ChildStep

(***************************************************************************)
(* The sandbox helper CLI (daytona-cli): base64 text, pushFile, pullFile   *)
(* and main().  A base64 text is the sequence of its characters, each      *)
(* given by its index in the base64 alphabet.                              *)
(***************************************************************************)
\* The padding character "=" and the line feed, after the 64 digits.
Pad == 64
NL == 65

\* CHUNK_SIZE of the source is 60000; the model keeps what matters of it,
\* that it is a multiple of 4, and scales it down.
CHUNK_SIZE == 8

\* The base64 command breaks its output into lines of 76 characters, a
\* multiple of 4 below CHUNK_SIZE; scaled down likewise.
WRAP == 4

ByteValues == {0, 255}
\* The file of n bytes whose groups of three bytes are, in turn, g and the
\* complement of g.
payloadOf(g, n) ==
    [k \in 1..n |-> IF ((k - 1) \div 3) % 2 = 0
                    THEN g[((k - 1) % 3) + 1]
                    ELSE 255 - g[((k - 1) % 3) + 1]]

\* The local files: every length up to MaxBytes, every value of a group of
\* three bytes (base64 encodes each such group by itself), neighbouring
\* groups different.
Payloads == {payloadOf(g, n) : g \in [1..3 -> ByteValues], n \in 0..MaxBytes}

RECURSIVE toBase64(_)
\* buffer.toString("base64"): three bytes give four digits, the rest is padded
toBase64(bs) ==
    IF Len(bs) = 0 THEN <<>>
    ELSE IF Len(bs) = 1
         THEN <<bs[1] \div 4, (bs[1] % 4) * 16, Pad, Pad>>
    ELSE IF Len(bs) = 2
         THEN <<bs[1] \div 4, (bs[1] % 4) * 16 + bs[2] \div 16, (bs[2] % 16) * 4, Pad>>
    ELSE <<bs[1] \div 4, (bs[1] % 4) * 16 + bs[2] \div 16,
           (bs[2] % 16) * 4 + bs[3] \div 64, bs[3] % 64>>
         \o toBase64(SubSeq(bs, 4, Len(bs)))

\* String.prototype.slice(from, to), with 0 <= from <= to
slice(str, from, to) == SubSeq(str, from + 1, IF to < Len(str) THEN to ELSE Len(str))

\* The bytes of one group of four characters.
decodeGroup(g) ==
    IF g[3] = Pad THEN <<g[1] * 4 + g[2] \div 16>>
    ELSE IF g[4] = Pad
         THEN <<g[1] * 4 + g[2] \div 16, (g[2] % 16) * 16 + g[3] \div 4>>
    ELSE <<g[1] * 4 + g[2] \div 16, (g[2] % 16) * 16 + g[3] \div 4,
           (g[3] % 4) * 64 + g[4]>>

RECURSIVE decodeGroups(_)
\* The bytes of the complete groups of a text without line feeds.
decodeGroups(str) ==
    IF Len(str) < 4 THEN <<>>
    ELSE decodeGroup(SubSeq(str, 1, 4)) \o decodeGroups(SubSeq(str, 5, Len(str)))

withoutLineFeeds(str) == SelectSeq(str, LAMBDA c : c # NL)

\* echo '<chunk>' | base64 -d: the bytes written, and whether the command
\* exits with 0 (it does not on a text that ends inside a group).
base64Decode(chunk) ==
    LET str == withoutLineFeeds(chunk \o <<NL>>)
    IN  [ok |-> Len(str) % 4 = 0, bytes |-> decodeGroups(str)]

RECURSIVE wrapLines(_)
\* The lines of the base64 command's output.
wrapLines(str) ==
    IF Len(str) = 0 THEN <<>>
    ELSE IF Len(str) <= WRAP THEN str \o <<NL>>
    ELSE SubSeq(str, 1, WRAP) \o <<NL>> \o wrapLines(SubSeq(str, WRAP + 1, Len(str)))

\* base64 '<remote>': the standard output for a file with these bytes
base64Command(bytes) == wrapLines(toBase64(bytes))

RECURSIVE trimStart(_)
trimStart(str) ==
    IF Len(str) > 0 /\ str[1] = NL THEN trimStart(SubSeq(str, 2, Len(str))) ELSE str

RECURSIVE trimEnd(_)
trimEnd(str) ==
    IF Len(str) > 0 /\ str[Len(str)] = NL THEN trimEnd(SubSeq(str, 1, Len(str) - 1)) ELSE str

\* String.prototype.trim
trim(str) == trimEnd(trimStart(str))

\* The text up to its first line feed.
firstLine(str) ==
    IF \E k \in DOMAIN str : str[k] = NL
    THEN SubSeq(str, 1, (CHOOSE k \in DOMAIN str :
                            str[k] = NL /\ \A m \in 1..(k - 1) : str[m] # NL) - 1)
    ELSE str

\* Mutant: the decoder stops at the first line feed.
bufferFromFirstLine(data) == decodeGroups(firstLine(data))

\* Buffer.from(data, "base64"): white space is skipped; a last group of two or
\* three characters is decoded as if it were padded, one character is dropped.
bufferFrom(data) ==
    LET str == withoutLineFeeds(data)
        rest == Len(str) % 4
        full == SubSeq(str, 1, Len(str) - rest)
        tail == SubSeq(str, Len(str) - rest + 1, Len(str))
    IN  decodeGroups(full)
        \o (IF rest = 2 THEN decodeGroup(tail \o <<Pad, Pad>>)
            ELSE IF rest = 3 THEN decodeGroup(tail \o <<Pad>>)
            ELSE <<>>)

\* code(res) of the helper CLI
code(res) == coalesce(res.exitCode, res.exit_code, 0)

\* Mutant: the exit code of a chunk command is not looked at.
chunkFailedNever(res) == FALSE

\* if (code(res) !== 0) throw ..., after every chunk command
chunkFailed(res) == code(res) # 0

\* What the program sees of a remote call: it threw, or returned this response.
seen(threw, res) == IF threw THEN "threw" ELSE IF code(res) = 0 THEN "zero" ELSE "nonzero"

\* A file that the sandbox already holds at the remote path.
Stale == [exists |-> TRUE, bytes |-> <<0>>]

\* The helper CLI after parseArgs, with its local file on disk; the remote path
\* may name a file the sandbox already has.
InitHelper ==
    /\ InitLedger /\ InitHarvest /\ InitDriverOff /\ InitPurgeIdle /\ InitScanIdle
    /\ hcpc = "create"
    /\ opts \in [push : 0..MaxPairs, cmd : BOOLEAN, pull : 0..MaxPairs, keep : BOOLEAN]
    /\ localFile \in Payloads
    /\ remoteFile \in {Gone, Stale}
    /\ outFile = Gone
    /\ b64 = <<>>
    /\ offset = 0
    /\ calls = <<>>
    /\ processExitCode = 0
    /\ pushIdx = 0
    /\ pullIdx = 0

\* main(): daytona.create; a rejection goes to the catch block
HCreate(threw) ==
    /\ hcpc = "create"
    /\ calls' = Append(calls, call("create", 0, IF threw THEN "threw" ELSE "zero", ~threw))
    /\ IF threw
       THEN hcpc' = "done" /\ processExitCode' = 1 /\ pushIdx' = pushIdx
       ELSE hcpc' = "push" /\ pushIdx' = 1 /\ processExitCode' = processExitCode
    /\ UNCHANGED <<opts, localFile, remoteFile, outFile, b64, offset, pullIdx>>
    /\ UNCHANGED <<ledgerVars, harvestVars, driverVars, purgeVars, scanVars>>

\* pushFile, up to the loop: the file is read and encoded, the remote file is
\* made empty by a command whose response is dropped.  The command exits
\* with c.
HPushStart(threw, c) ==
    /\ hcpc = "push"
    /\ pushIdx <= opts.push
    /\ b64' = toBase64(localFile)
    /\ offset' = 0
    /\ calls' = Append(calls, call("truncate", 0,
                                   IF threw THEN "threw" ELSE IF c = 0 THEN "zero" ELSE "nonzero",
                                   ~threw /\ c = 0))
    /\ remoteFile' = IF ~threw /\ c = 0 THEN [exists |-> TRUE, bytes |-> <<>>] ELSE remoteFile
    /\ IF threw
       THEN hcpc' = "done" /\ processExitCode' = 1
       ELSE hcpc' = "pushing" /\ processExitCode' = processExitCode
    /\ UNCHANGED <<opts, localFile, outFile, pushIdx, pullIdx>>
    /\ UNCHANGED <<ledgerVars, harvestVars, driverVars, purgeVars, scanVars>>

\* One round of the loop of pushFile: the chunk at offset is decoded onto the
\* end of the remote file by a command that exits with c when the text is
\* well formed, and the response res is checked.
HPushChunk(threw, c, res) ==
    /\ hcpc = "pushing"
    /\ offset < Len(b64)
    /\ LET chunk == slice(b64, offset, offset + CHUNK_SIZE)
           dec == base64Decode(chunk)
           exit == IF dec.ok THEN c ELSE 1
           took == ~threw /\ exit = 0
       IN  /\ res \in Responses(exit)
           /\ calls' = Append(calls, call("append", offset, seen(threw, res), took))
           /\ remoteFile' = IF took
                            THEN [exists |-> TRUE, bytes |-> remoteFile.bytes \o dec.bytes]
                            ELSE remoteFile
           /\ IF threw \/ chunkFailed(res)
              THEN hcpc' = "done" /\ processExitCode' = 1 /\ offset' = offset
              ELSE hcpc' = hcpc /\ processExitCode' = processExitCode
                   /\ offset' = offset + CHUNK_SIZE
    /\ UNCHANGED <<opts, localFile, outFile, b64, pushIdx, pullIdx>>
    /\ UNCHANGED <<ledgerVars, harvestVars, driverVars, purgeVars, scanVars>>

\* pushFile returns after the last chunk.
HPushEnd ==
    /\ hcpc = "pushing"
    /\ offset >= Len(b64)
    /\ hcpc' = "push"
    /\ pushIdx' = pushIdx + 1
    /\ UNCHANGED <<opts, localFile, remoteFile, outFile, b64, offset, calls,
                   processExitCode, pullIdx>>
    /\ UNCHANGED <<ledgerVars, harvestVars, driverVars, purgeVars, scanVars>>

\* main(): the command, when one is given; it leaves the pushed file alone
HCmd(threw, c, res) ==
    /\ hcpc = "push"
    /\ pushIdx > opts.push
    /\ res \in Responses(c)
    /\ IF opts.cmd
       THEN /\ calls' = Append(calls, call("cmd", 0, seen(threw, res), ~threw /\ c = 0))
            /\ IF threw \/ code(res) # 0
               THEN hcpc' = "done" /\ processExitCode' = 1 /\ pullIdx' = pullIdx
               ELSE hcpc' = "pull" /\ processExitCode' = processExitCode /\ pullIdx' = 1
       ELSE /\ ~threw /\ c = 0 /\ res.exit_code.null
            /\ calls' = calls
            /\ hcpc' = "pull" /\ processExitCode' = processExitCode /\ pullIdx' = 1
    /\ UNCHANGED <<opts, localFile, remoteFile, outFile, b64, offset, pushIdx>>
    /\ UNCHANGED <<ledgerVars, harvestVars, driverVars, purgeVars, scanVars>>

\* pullFile: the base64 command exits with c when the remote file exists; its
\* output is trimmed, decoded and written to the local path
HPull(threw, c, res) ==
    /\ hcpc = "pull"
    /\ pullIdx <= opts.pull
    /\ LET exit == IF remoteFile.exists THEN c ELSE 1
           took == ~threw /\ exit = 0
           data == IF took THEN base64Command(remoteFile.bytes) ELSE <<>>
       IN  /\ res \in Responses(exit)
           /\ calls' = Append(calls, call("base64", 0, seen(threw, res), took))
           /\ IF threw \/ code(res) # 0
              THEN hcpc' = "done" /\ processExitCode' = 1
                   /\ outFile' = outFile /\ pullIdx' = pullIdx
              ELSE hcpc' = hcpc /\ processExitCode' = processExitCode
                   /\ outFile' = [exists |-> TRUE, bytes |-> bufferFrom(trim(data))]
                   /\ pullIdx' = pullIdx + 1
    /\ UNCHANGED <<opts, localFile, remoteFile, b64, offset, pushIdx>>
    /\ UNCHANGED <<ledgerVars, harvestVars, driverVars, purgeVars, scanVars>>

\* main(): if (!opts.keep) await sandbox.delete(), the last statement of the
\* try block
HDelete(threw) ==
    /\ hcpc = "pull"
    /\ pullIdx > opts.pull
    /\ hcpc' = "done"
    /\ IF opts.keep
       THEN ~threw /\ calls' = calls /\ processExitCode' = processExitCode
       ELSE /\ calls' = Append(calls, call("delete", 0, IF threw THEN "threw" ELSE "zero", ~threw))
            /\ processExitCode' = IF threw THEN 1 ELSE processExitCode
    /\ UNCHANGED <<opts, localFile, remoteFile, outFile, b64, offset, pushIdx, pullIdx>>
    /\ UNCHANGED <<ledgerVars, harvestVars, driverVars, purgeVars, scanVars>>

\* Every response a remote command may return.
AllResponses == UNION {Responses(c) : c \in 0..MaxExit}

NextHelper ==
    \/ \E threw \in BOOLEAN : HCreate(threw)
    \/ \E threw \in BOOLEAN, c \in 0..MaxExit : HPushStart(threw, c)
    \/ \E threw \in BOOLEAN, c \in 0..MaxExit, res \in AllResponses :
          HPushChunk(threw, c, res)
    \/ HPushEnd
    \/ \E threw \in BOOLEAN, c \in 0..MaxExit, res \in AllResponses : HCmd(threw, c, res)
    \/ \E threw \in BOOLEAN, c \in 0..MaxExit, res \in AllResponses :
          HPull(threw, c, res)
    \/ \E threw \in BOOLEAN : HDelete(threw)

(***************************************************************************)
(* Jobs run one after another, each harvesting after its agent run.        *)
(***************************************************************************)
NoHarvestRunning == \A j \in Jobs : hpc[j] = "idle"

\* The tools directory may hold files before the first harvest.
InitSequentialHarvest ==
    /\ InitLedger
    /\ InitDriverIdle
    /\ workspace = [n \in Names |-> Absent]
    /\ \E n \in Names, e \in {Absent} \cup {File(c, FALSE) : c \in Contents} :
          store = [m \in Names |-> IF m = n THEN e ELSE Absent]
    /\ hpc = [j \in Jobs |-> "idle"]
    /\ hvariant = [j \in Jobs |-> "runner"]
    /\ listing = [j \in Jobs |-> <<>>]
    /\ hidx = [j \in Jobs |-> 1]
    /\ newTools = [j \in Jobs |-> <<>>]

\* The agent of the running job creates, replaces or removes a workspace entry.
AgentWrites(n, e) ==
    /\ NoHarvestRunning
    /\ workspace' = [workspace EXCEPT ![n] = e]
    /\ UNCHANGED <<store, hpc, hvariant, listing, hidx, newTools>>
    /\ UNCHANGED ledgerVars
    /\ UNCHANGED <<driverVars, toolVars>>

\* The job's last attempt exited 0: collectTools() is called.
HarvestStart(j, v) ==
    /\ NoHarvestRunning
    /\ collectStart(j, v)
    /\ UNCHANGED ledgerVars
    /\ UNCHANGED <<driverVars, toolVars>>

HarvestCheck(j) == collectCheck(j) /\ UNCHANGED ledgerVars /\ UNCHANGED <<driverVars, toolVars>>

HarvestCopy(j) == collectCopy(j) /\ UNCHANGED ledgerVars /\ UNCHANGED <<driverVars, toolVars>>

HarvestCopyFails(j) == collectCopyFails(j) /\ UNCHANGED ledgerVars /\ UNCHANGED <<driverVars, toolVars>>

HarvestEnd(j) == collectEnd(j) /\ UNCHANGED ledgerVars /\ UNCHANGED <<driverVars, toolVars>>

\* collectTools has returned and the job's process exits.
HarvestReturn(j) ==
    /\ hpc[j] = "done"
    /\ hpc' = [hpc EXCEPT ![j] = "idle"]
    /\ hvariant' = [hvariant EXCEPT ![j] = "runner"]
    /\ listing' = [listing EXCEPT ![j] = <<>>]
    /\ hidx' = [hidx EXCEPT ![j] = 1]
    /\ newTools' = [newTools EXCEPT ![j] = <<>>]
    /\ UNCHANGED <<workspace, store>>
    /\ UNCHANGED ledgerVars
    /\ UNCHANGED <<driverVars, toolVars>>

NextSequentialHarvest ==
    \/ \E n \in Names, e \in WorkspaceEntries : AgentWrites(n, e)
    \/ \E j \in Jobs, v \in {"cli", "runner"} : HarvestStart(j, v)
    \/ \E j \in Jobs : HarvestCheck(j)
    \/ \E j \in Jobs : HarvestCopy(j)
    \/ \E j \in Jobs : HarvestCopyFails(j)
    \/ \E j \in Jobs : HarvestEnd(j)
    \/ \E j \in Jobs : HarvestReturn(j)

(***************************************************************************)
(* The task list (src/view-tasks.tsx): clearTasks.  Submitters and runners *)
(* go on beside it.  The mkdir of handleSubmit is left out: the logs       *)
(* directory is there at the start and nothing but clearTasks touches it.  *)
(***************************************************************************)
InitPurge ==
    /\ InitLedger /\ InitHarvest /\ InitDriverOff /\ InitHelperIdle /\ InitScanIdle
    /\ logsDir = TRUE
    /\ ppc = "idle"
    /\ toast = "none"
    /\ removed = Untouched

\* The user picks "Clear Tasks/Logs".
clearTasksStart ==
    /\ ppc \in {"idle", "returned"}
    /\ ppc' = "ledger"
    /\ removed' = Untouched
    /\ UNCHANGED <<logsDir, toast>>
    /\ UNCHANGED <<ledgerVars, harvestVars, driverVars, helperVars, scanVars>>

\* Where clearTasks goes after a removal: on, or to its catch block.
afterRemoval(step, threw) ==
    IF threw THEN "failure" ELSE IF step = "ledger" THEN "logs" ELSE "success"

\* if (fs.existsSync(tasksFile)) fs.rmSync(tasksFile)
clearTasksLedger(threw) ==
    /\ ppc = "ledger"
    /\ threw => tasksFile.exists
    /\ tasksFile' = IF tasksFile.exists /\ ~threw
                    THEN [exists |-> FALSE, content |-> <<>>] ELSE tasksFile
    /\ removed' = [removed EXCEPT !.ledger = IF ~tasksFile.exists THEN "absent"
                                               ELSE IF threw THEN "kept" ELSE "removed",
                                   !.records = IF tasksFile.exists /\ ~threw
                                               THEN {tasksFile.content[k].id :
                                                        k \in DOMAIN tasksFile.content}
                                               ELSE {}]
    /\ ppc' = afterRemoval("ledger", threw)
    /\ UNCHANGED <<logsDir, toast>>
    /\ UNCHANGED <<clock, pc, taskId, tasks, statusArg, endArg>>
    /\ UNCHANGED <<harvestVars, driverVars, helperVars, scanVars>>

\* if (fs.existsSync(logsDir)) fs.rmSync(logsDir, { recursive: true, force: true })
clearTasksLogs(threw) ==
    /\ ppc = "logs"
    /\ threw => logsDir
    /\ logsDir' = (logsDir /\ threw)
    /\ removed' = [removed EXCEPT !.logs = IF ~logsDir THEN "absent"
                                             ELSE IF threw THEN "kept" ELSE "removed"]
    /\ ppc' = afterRemoval("logs", threw)
    /\ UNCHANGED toast
    /\ UNCHANGED <<ledgerVars, harvestVars, driverVars, helperVars, scanVars>>

\* setTasks([]); showToast(Success, "Tasks cleared"), or in the catch block
\* showToast(Failure, "Failed to clear tasks")
clearTasksToast ==
    /\ ppc \in {"success", "failure"}
    /\ toast' = IF ppc = "success" THEN "Success" ELSE "Failure"
    /\ ppc' = "returned"
    /\ UNCHANGED <<logsDir, removed>>
    /\ UNCHANGED <<ledgerVars, harvestVars, driverVars, helperVars, scanVars>>

NextPurge ==
    \/ NextLedger
    \/ clearTasksStart
    \/ \E threw \in BOOLEAN : clearTasksLedger(threw)
    \/ \E threw \in BOOLEAN : clearTasksLogs(threw)
    \/ clearTasksToast

(***************************************************************************)
(* Jobs run at the same time: each is a process of its own, its agent      *)
(* writes to the shared working directory and its collectTools call        *)
(* interleaves with the other jobs' file system calls.                     *)
(***************************************************************************)
InitConcurrentHarvest == InitLedger /\ InitHarvest /\ InitDriverIdle

\* The agent of some running job writes a tool file.
ConcurrentAgentWrites(n, c) ==
    /\ workspace' = [workspace EXCEPT ![n] = File(c, FALSE)]
    /\ UNCHANGED <<store, hpc, hvariant, listing, hidx, newTools>>
    /\ UNCHANGED ledgerVars
    /\ UNCHANGED <<driverVars, toolVars>>

\* A job's last attempt exited 0: collectTools() is called, whatever the
\* other jobs are doing.
ConcurrentHarvestStart(j, v) ==
    /\ collectStart(j, v)
    /\ UNCHANGED ledgerVars
    /\ UNCHANGED <<driverVars, toolVars>>

NextConcurrentHarvest ==
    \/ \E n \in {FizzbuzzPy, ToolSh}, c \in Contents : ConcurrentAgentWrites(n, c)
    \/ \E j \in Jobs, v \in {"cli", "runner"} : ConcurrentHarvestStart(j, v)
    \/ \E j \in Jobs : HarvestCheck(j)
    \/ \E j \in Jobs : HarvestCopy(j)
    \/ \E j \in Jobs : HarvestCopyFails(j)
    \/ \E j \in Jobs : HarvestEnd(j)
    \/ \E j \in Jobs : HarvestReturn(j)

(***************************************************************************)
(* Refusal detection on its own: detectRefusal applied to an output put    *)
(* together from pieces of text.                                           *)
(***************************************************************************)
\* Pieces of agent output: signatures in other case, split over two pieces,
\* misspelt, and text that is no signature.
Fragments ==
    { <<"D", "o", "n", "e", ".", " ", "I", " ", "C", "A", "N", "N", "O", "T", " ">>,
      <<"A", "S", "S", "I", "S", "T">>,
      <<"i", " ", "c", "a", "n", "'", "t", " ">>,
      <<"h", "e", "l", "p">>,
      <<"T", "e", "r", "m", "s", " ", "o", "f", " ">>,
      <<"s", "e", "r", "v", "i", "c", "e">>,
      <<"v", "i", "o", "l", "a", "t", "e">>,
      <<"I", " ", "c", "a", "n", "o", "t", " ">>,
      <<"D", "o", "n", "e", ".">> }

RECURSIVE OutputsOf(_)
\* The outputs made of at most n pieces.
OutputsOf(n) ==
    IF n = 0 THEN {<<>>}
    ELSE OutputsOf(n - 1) \cup {o \o f : o \in OutputsOf(n - 1), f \in Fragments}

Outputs == OutputsOf(MaxWords)

Drivers == {"cli", "docker", "remote"}

InitScan ==
    /\ InitLedger /\ InitHarvest /\ InitDriverOff /\ InitHelperIdle /\ InitPurgeIdle
    /\ agentOutput \in Outputs
    /\ isRefusal = NotChecked

\* detectRefusal(result.output) of driver v
CheckOutput(v) ==
    /\ isRefusal = NotChecked
    /\ isRefusal' = [by |-> v, refusal |-> detectRefusal(v, agentOutput)]
    /\ UNCHANGED <<agentOutput, ledgerVars, harvestVars, driverVars, helperVars, purgeVars>>

NextScan == \E v \in Drivers : CheckOutput(v)

(***************************************************************************)
(* Specifications.                                                         *)
(***************************************************************************)
\* The ledger under concurrent submitters and runners.
InitJobs == InitLedger /\ InitHarvest /\ InitDriverIdle

Spec == InitJobs /\ [][NextLedger]_vars

\* The ledger file as its readers see it: writes in two halves, writers that
\* may be killed, a ledger that may be malformed from the start.
InitFile == InitLedgerFile /\ InitHarvest /\ InitDriverIdle

NextFile ==
    \/ NextLedger
    \/ \E j \in Jobs : WriteOpens(j)
    \/ \E j \in Jobs : WriterKilled(j)

FileSpec == InitFile /\ [][NextFile]_vars

\* The task list's purge beside the jobs.
PurgeSpec == InitPurge /\ [][NextPurge]_vars

\* One job from its dispatch to the exit of its driver.
DriverSpec == InitDriver /\ [][NextDriver]_vars

\* The same, with the scheduling the event loop and the kernel guarantee: the
\* driver's own steps, the armed timer and the pending events are taken, and a
\* child that does not ignore SIGTERM dies of it.  A child that runs on is
\* not made to exit.
DriverFairSpec ==
    /\ InitDriver
    /\ [][NextDriver]_vars
    /\ WF_vars(DriverStep)
    /\ WF_vars(GTimerFires)
    /\ WF_vars(GChildKilled)

\* The ledger under concurrent submitters and runners none of which is
\* stopped from outside: a process that can take its next step takes it.
LedgerFairSpec ==
    /\ InitJobs
    /\ [][NextLedger]_vars
    /\ \A j \in Jobs :
          /\ WF_vars(SubmitRead(j))
          /\ WF_vars(SubmitWrite(j))
          /\ WF_vars(RunnerFinish(j))
          /\ WF_vars(RunnerWrite(j))

\* The tool store under jobs that run one after another.
HarvestSpec == InitSequentialHarvest /\ [][NextSequentialHarvest]_vars

\* Refusal detection applied to outputs of at most MaxWords pieces.
RefusalSpec == InitScan /\ [][NextScan]_vars

\* The tool store under jobs whose harvests overlap.
ConcurrentHarvestSpec == InitConcurrentHarvest /\ [][NextConcurrentHarvest]_vars

\* One run of the sandbox helper CLI.
HelperSpec == InitHelper /\ [][NextHelper]_vars

(***************************************************************************)
(* Claims about the ledger.                                                *)
(***************************************************************************)

\* The submitted jobs carry pairwise distinct ids.
DistinctIds ==
    \A a, b \in Jobs : (a # b /\ taskId[a] # 0 /\ taskId[b] # 0) => taskId[a] # taskId[b]

\* C1: the stored status of a record only moves from running to completed or
\* failed: a record the file shows as completed or failed is never shown
\* later as running or with the other terminal status (stated for jobs with
\* pairwise distinct ids, so that a record is identified by its id).
C1_StatusNeverGoesBack ==
    [][DistinctIds' =>
        \A i \in DOMAIN tasksFile.content :
          \A k \in DOMAIN tasksFile'.content :
            (/\ tasksFile.content[i].status \in Terminal
             /\ tasksFile'.content[k].id = tasksFile.content[i].id)
            => tasksFile'.content[k].status = tasksFile.content[i].status]_vars

\* C2: in every state of the ledger file, a record has an endTime exactly
\* when its status is completed or failed.
C2_EndTimeIffTerminal ==
    \A i \in DOMAIN tasksFile.content :
        ("endTime" \in DOMAIN tasksFile.content[i])
            <=> (tasksFile.content[i].status \in Terminal)

\* C2 witness: an updateTask has rewritten the file: one record is terminal with
\* its endTime while another one is still running without one.
C2_Witness ==
    \E i, k \in DOMAIN tasksFile.content :
        /\ tasksFile.content[i].status \in Terminal
        /\ "endTime" \in DOMAIN tasksFile.content[i]
        /\ tasksFile.content[k].status = "running"
        /\ "endTime" \notin DOMAIN tasksFile.content[k]
        /\ \E j \in Jobs : pc[j] = "exited"

(***************************************************************************)
(* Claims about the execution driver and the process gateway.              *)
(***************************************************************************)
\* The status the ledger file holds for the driver's job.
jobStatus ==
    LET idx == findIndex(tasksFile.content, taskId[DJ])
    IN  IF idx = 0 THEN "none" ELSE tasksFile.content[idx].status

\* The refusal check is behind the driver and an attempt has been made.
decided ==
    /\ attempts # <<>>
    /\ dpc \in {"collect", "collecting", "cleanup", "update", "updwrite", "exit", "done"}

\* C3: within one job the agent is launched at most twice, first with the
\* primary model and then at most once with the fallback model; nothing is
\* launched after the fallback attempt, whatever its output.
C3_AtMostTwoLaunches ==
    launched \in {<<>>, <<"primary">>, <<"primary", "fallback">>}

\* C3 witness: the job is over after a fallback attempt whose output is a
\* refusal too.
C3_Witness ==
    /\ dpc = "done"
    /\ launched = <<"primary", "fallback">>
    /\ Len(attempts) = 2
    /\ detectRefusal(variant, attempts[2].output)

\* C4: in the Docker runner and the CLI a fallback attempt is started exactly
\* when a fallback model is configured and the output of the primary attempt
\* matches a refusal signature; without a fallback model the single attempt
\* gives the terminal status, and a primary attempt that exits non-zero
\* without a refusal signature is recorded as failed with no retry.
C4_FallbackIffConfiguredRefusal ==
    (variant # "remote" /\ attempts # <<>>) =>
        LET refused == detectRefusal(variant, attempts[1].output)
        IN  /\ Len(launched) = 2 => (retryModel /\ refused)
            /\ decided => (Len(launched) = 2 <=> (retryModel /\ refused))
            /\ (dpc = "done" /\ ~retryModel) =>
                  /\ Len(attempts) = 1
                  /\ procExit = Num(attempts[1].exitCode)
                  /\ variant = "docker" => jobStatus \in Terminal
            /\ (dpc = "done" /\ attempts[1].exitCode # 0 /\ ~refused) =>
                  /\ Len(attempts) = 1
                  /\ procExit # Num(0)
                  /\ variant = "docker" => jobStatus = "failed"

\* C4 witness: a job without a fallback model is over after one attempt whose
\* output is a refusal.
C4_Witness ==
    /\ variant # "remote"
    /\ dpc = "done"
    /\ ~retryModel
    /\ Len(launched) = 1
    /\ Len(attempts) = 1
    /\ detectRefusal(variant, attempts[1].output)

\* C5: when the Docker runner or the CLI is over after at least one attempt,
\* the process has exited with the exit code of the last attempt, and the
\* ledger status of the runner's job is completed if that code is 0 and
\* failed otherwise, whatever the exit code of an earlier attempt.
C5_OutcomeOfLastAttempt ==
    (variant # "remote" /\ dpc = "done" /\ attempts # <<>>) =>
        LET last == attempts[Len(attempts)]
        IN  /\ procExit = Num(last.exitCode)
            /\ variant = "docker" =>
                  jobStatus = IF last.exitCode = 0 THEN "completed" ELSE "failed"

\* C5 witness: a runner is over after two attempts with different exit codes.
C5_Witness ==
    /\ variant = "docker"
    /\ dpc = "done"
    /\ Len(attempts) = 2
    /\ attempts[1].exitCode # attempts[2].exitCode

\* C6: a job whose last attempt went over its timeout and was signalled does
\* not end with exit code 0 (and so is not recorded as completed).
C6_TimeoutIsNotSuccess ==
    (/\ variant # "remote" /\ dpc = "done" /\ attempts # <<>>
     /\ attempts[Len(attempts)].how = "timeout") => procExit # Num(0)

\* C7: once the timer of a runDocker call has fired and SIGTERM was sent, the
\* promise of the call is eventually resolved, whatever the child does.
C7_RunDockerReturns ==
    gw.sigterm ~> (dpc \notin {"awaitPrimary", "awaitFallback"})

\* C8: a job whose only attempt could not be launched ends with a non-zero
\* exit code, and the runner records it as failed.
C8_LaunchFailureIsFailure ==
    (/\ variant # "remote" /\ dpc = "done" /\ Len(attempts) = 1
     /\ attempts[1].how = "nolaunch") =>
        /\ procExit # Num(0)
        /\ variant = "docker" => jobStatus = "failed"

\* C9: the process of the fallback attempt is started only when the process
\* of the primary attempt has exited or has failed to launch, also when the
\* primary attempt went over its timeout and was signalled.
C9_AttemptsAreSequential ==
    \A k \in DOMAIN child :
        k < Len(child) => child[k] \in {"exited", "nolaunch"}

\* C9 witness: the CLI has started the fallback process after a primary
\* attempt that was signalled at its timeout.
C9_Witness ==
    /\ variant = "cli"
    /\ Len(child) = 2
    /\ Len(attempts) >= 1
    /\ attempts[1].how = "timeout"

(***************************************************************************)
(* Claims about the tool harvester.                                        *)
(***************************************************************************)

\* C10: a harvest never changes an entry the tool store already has: an
\* existing entry keeps its content whatever the workspace file of the same
\* name holds, and only absent names are added.
C10_HarvestKeepsExisting ==
    [][\A n \in Names : store[n].kind # "none" => store'[n] = store[n]]_vars

\* C10 witness: a harvest has gone past a workspace tool file whose name an
\* earlier job harvested with a different content.
C10_Witness ==
    \E j \in Jobs :
        /\ hpc[j] = "done"
        /\ \E i \in DOMAIN listing[j] :
              LET n == listing[j][i]
              IN  /\ ~isExcluded(n) /\ hasToolExtension(n)
                  /\ workspace[n].kind = "file"
                  /\ store[n].kind = "file" /\ store[n].exec
                  /\ store[n].content # workspace[n].content

\* The names of the model that end with a listed extension and hold no
\* exclude pattern: fizzbuzz.py and tool.sh, but neither .runner-1.js (exclude
\* pattern .runner-) nor notes.txt (extension not listed).
ToolNames == {FizzbuzzPy, ToolSh}

\* The workspace entry n is a regular file a harvest has to copy.
toHarvest(n) ==
    n \in ToolNames /\ workspace[n].kind = "file" /\ store[n].kind = "none"

emptyStore == [n \in Names |-> Absent]

C13_HarvestErrorsNotFatal ==
    (variant # "remote" /\ collectFailed) =>
        /\ dpc # "catch"
        /\ ~caught
        /\ dpc = "done" =>
              LET last == attempts[Len(attempts)]
              IN  /\ procExit = Num(last.exitCode)
                  /\ variant = "docker" =>
                        jobStatus = IF last.exitCode = 0 THEN "completed" ELSE "failed"

\* C13 witness: a runner is over whose collectTools call had a copy throw; and
\* the same for a CLI run whose push to the shared repository failed.
C13_Witness ==
    /\ dpc = "done"
    /\ collectFailed
    /\ \/ variant = "docker" /\ jobStatus = "completed"
       \/ /\ variant = "cli"
          /\ gitSteps # <<>>
          /\ gitSteps[Len(gitSteps)] = [cmd |-> "push", ok |-> FALSE]

(***************************************************************************)
(* Claims about the sandbox of the remote variant and the local image.     *)
(***************************************************************************)

\* C14: when the remote runner is over and has created a sandbox, the delete
\* call for that sandbox has been issued, whatever failed or threw in between.
C14_SandboxDeleteIssued ==
    (variant = "remote" /\ dpc = "done") =>
        sandbox \in {"none", "deleted", "deleteFailed"}

\* C15: a delete call that fails leaves the job's outcome alone: after a last
\* attempt that exited 0 the runner exits 0 and the job is recorded completed.
C15_DeleteFailureNotFatal ==
    (/\ variant = "remote" /\ dpc = "done" /\ sandbox = "deleteFailed"
     /\ attempts # <<>> /\ attempts[Len(attempts)].exitCode = 0) =>
        /\ procExit = Num(0)
        /\ jobStatus = "completed"

\* C16: the agent is never run in a sandbox whose install command did not
\* succeed: a sandbox that is created but not ready has had no launch.
C16_NoRunUnlessReady ==
    (variant = "remote" /\ sandbox = "created") => launched = <<>>

\* C17: in the Docker runner and the CLI the agent is launched only with a
\* usable image (inspect and smoke test succeeded, or a build succeeded); with
\* a failed build, or with no Dockerfile to build from, no attempt is made,
\* the process exits with 1 and the runner records the job as failed.
C17_NoLaunchUnlessImageUsable ==
    variant # "remote" =>
        /\ launched # <<>> => image = "usable"
        /\ (dpc = "done" /\ image \in {"broken", "absent", "buildFailed"}) =>
              /\ launched = <<>>
              /\ procExit = Num(1)
              /\ variant = "docker" => jobStatus = "failed"

\* C17 witness: a runner is over after inspect, a failed smoke test and a
\* failed build.
C17_Witness ==
    /\ variant = "docker"
    /\ dpc = "done"
    /\ image = "buildFailed"
    /\ [k \in DOMAIN imageSteps |-> imageSteps[k].cmd] =
          <<"inspect", "test", "dockerfile", "build">>

\* The container runtime was found unavailable: docker info failed, before
\* any image command.
runtimeUnavailable ==
    /\ variant # "remote"
    /\ imageSteps = <<>>
    /\ \/ dpc = "catch"
       \/ caught
       \/ variant = "cli" /\ dpc = "done"

\* C18: when the container runtime is unavailable the ledger never holds a
\* record of the job.
C18_NoRecordWithoutRuntime ==
    runtimeUnavailable => jobStatus = "none"

\* C19: during a push the chunk commands are issued in order, each carrying
\* the chunk after the one before it, and a next remote call is made only
\* after a chunk command that returned exit code 0: the first chunk command
\* that returns a non-zero exit code is the last call of the run, the push
\* is not counted as done and the run ends in the error branch.
C19_ChunkFailureAbortsPush ==
    \A k \in DOMAIN calls :
        calls[k].op = "append" =>
            /\ k > 1
            /\ calls[k - 1].op \in {"truncate", "append"}
            /\ calls[k].at = (IF calls[k - 1].op = "append"
                              THEN calls[k - 1].at + CHUNK_SIZE ELSE 0)
            /\ calls[k].out # "zero" =>
                   /\ k = Len(calls)
                   /\ hcpc = "done"
                   /\ processExitCode = 1
                   /\ pushIdx <= opts.push

\* The first chunk command of a push of several chunks returned a non-zero
\* exit code and the run has ended.
C19_Witness ==
    /\ hcpc = "done"
    /\ Len(b64) > CHUNK_SIZE
    /\ calls # <<>>
    /\ calls[Len(calls)] = call("append", 0, "nonzero", FALSE)
    /\ processExitCode = 1

\* Every remote call made so far returned and had its effect.
allSucceeded == \A k \in DOMAIN calls : calls[k].took /\ calls[k].out = "zero"

\* C20: when every remote command succeeds, the remote file holds the bytes
\* of the local file whenever a push is over and no other is under way (the
\* independently decoded chunks, one after the other, are the original
\* bytes), and a run that pushes a
\* file and pulls the same remote path writes a local file with the same
\* bytes and ends without error; for payloads of every length up to
\* MaxBytes, whose encoded length is 0, below, at and over CHUNK_SIZE.
C20_PushPullRoundTrip ==
    allSucceeded =>
        /\ (pushIdx > 1 /\ hcpc # "pushing") => remoteFile = [exists |-> TRUE, bytes |-> localFile]
        /\ (opts.push >= 1 /\ opts.pull >= 1 /\ hcpc = "done") =>
               /\ outFile = [exists |-> TRUE, bytes |-> localFile]
               /\ processExitCode = 0

\* A payload of two chunks with both byte values has made the round trip.
C20_Witness ==
    /\ hcpc = "done"
    /\ allSucceeded
    /\ opts.push >= 1 /\ opts.pull >= 1
    /\ Len(toBase64(localFile)) > CHUNK_SIZE
    /\ {localFile[k] : k \in DOMAIN localFile} = ByteValues
    /\ \E k \in DOMAIN calls : calls[k].op = "append" /\ calls[k].at = CHUNK_SIZE
    /\ outFile = [exists |-> TRUE, bytes |-> localFile]

\* C21: a push is all-or-nothing for the caller: whenever a push has returned
\* without error the remote file holds exactly the bytes of the local file,
\* and a remote step of a push (the truncating command or a chunk command)
\* that did not take effect is the last remote call of the run, which ends in
\* the error branch.
C21_PushAllOrNothing ==
    /\ (pushIdx > 1 /\ hcpc # "pushing") => remoteFile = [exists |-> TRUE, bytes |-> localFile]
    /\ \A k \in DOMAIN calls :
           (calls[k].op \in {"truncate", "append"} /\ ~calls[k].took) =>
               k = Len(calls) /\ hcpc = "done" /\ processExitCode = 1

\* The upload of the context files of the remote job has thrown.
uploadThrew == \E k \in DOMAIN calls : calls[k].op = "upload" /\ calls[k].out = "threw"

\* C22: a transfer error while the context files are uploaded is fatal for
\* the remote job: the agent is never run afterwards (nor is the sandbox
\* deleted), and when the runner has exited the ledger shows the job failed
\* with an endTime and the exit code is 1.
C22_UploadFailureIsFatal ==
    (variant = "remote" /\ uploadThrew) =>
        /\ launched = <<>>
        /\ sandbox # "deleted"
        /\ dpc = "done" =>
               /\ procExit = Num(1)
               /\ LET idx == findIndex(tasksFile.content, taskId[DJ])
                  IN  /\ idx # 0
                      /\ tasksFile.content[idx].status = "failed"
                      /\ "endTime" \in DOMAIN tasksFile.content[idx]

\* The runner of a remote job has exited after an upload that threw.
C22_Witness ==
    /\ variant = "remote"
    /\ uploadThrew
    /\ dpc = "done"
    /\ jobStatus = "failed"

(***************************************************************************)
(* Further claims about the ledger.                                        *)
(***************************************************************************)
\* C23: the ledger file holds at most one record per id in every reachable
\* state, whatever the submissions and the clock values they read, two
\* submissions that read the same clock value included.
C23_OneRecordPerId ==
    \A a, b \in DOMAIN tasksFile.content :
        tasksFile.content[a].id = tasksFile.content[b].id => a = b

\* Process j rewrites the ledger file in this step.
rewrites(j) ==
    /\ pc[j] \in {"sub_write", "upd_write"}
    /\ pc'[j] # pc[j]
    /\ pc[j] = "upd_write" => findIndex(tasks[j], taskId[j]) # 0

\* C24: a ledger mutation rewrites the whole collection from the array its
\* process read earlier: after a write by process j every record of another
\* id is the record j read at that position, whatever the file held in
\* between, so that a record created, or a terminal status written, by
\* another process after j's read is gone (last writer wins).  The witness
\* is a state where that has happened.
C24_LastWriterWins ==
    [][\A j \in Jobs : rewrites(j) =>
          \A k \in DOMAIN tasksFile'.content :
              tasksFile'.content[k].id # taskId[j] =>
                  k \in DOMAIN tasks[j] /\ tasksFile'.content[k] = tasks[j][k]]_vars

\* Two jobs with different ids have both finished and their runners have
\* both completed updateTask with a terminal status, and the ledger shows one
\* of them as running: its update was overwritten by the other's.
C24_Witness ==
    /\ DistinctIds
    /\ \A j \in Jobs : pc[j] = "exited" /\ statusArg[j] \in Terminal
    /\ Len(tasksFile.content) = MaxJobs
    /\ \E k \in DOMAIN tasksFile.content : tasksFile.content[k].status = "running"

\* C25: the ledger file is valid structured data at every instant a reader
\* (the poller of the task list, the read of another job's mutation) can
\* look at it: no step takes a ledger that is absent or parses to one that
\* does not parse.
C25_LedgerValidForReaders ==
    [][~isMalformed(tasksFile) => ~isMalformed(tasksFile')]_vars

\* C26: a malformed ledger is tolerated by every mutation, which takes the
\* collection as empty and overwrites the file: when a create that read
\* nothing ends on a malformed ledger the file is valid and holds exactly
\* the new record, and when an update that read nothing ends on a malformed
\* ledger the file is valid again.
C26_MalformedLedgerOverwritten ==
    [][\A j \in Jobs :
          /\ (pc[j] = "sub_write" /\ pc'[j] = "running"
                  /\ isMalformed(tasksFile) /\ tasks[j] = <<>>)
               => tasksFile' = writeTasks(<<newTask(taskId[j], clock)>>)
          /\ (pc[j] = "upd_write" /\ pc'[j] = "exited"
                  /\ isMalformed(tasksFile) /\ tasks[j] = <<>>)
               => ~isMalformed(tasksFile')]_vars

\* C27: the purge is atomic for its caller: when clearTasks has returned and
\* told success, the ledger file and the logs directory were each removed or
\* not there; when it has returned and told failure, it has removed neither.
C27_PurgeAllOrNothing ==
    ppc = "returned" =>
        /\ toast = "Success" => (removed.ledger # "kept" /\ removed.logs # "kept")
        /\ toast = "Failure" => (removed.ledger # "removed" /\ removed.logs # "removed")

(***************************************************************************)
(* Further claims about the execution driver.                              *)
(***************************************************************************)
\* The primary output of a runner's job was a refusal with a fallback
\* configured, and the fallback attempt has returned exit code 0.
refusedThenSucceeded ==
    /\ variant # "cli"
    /\ Len(attempts) = 2
    /\ shouldRetry(variant, retryModel, attempts[1].output)
    /\ attempts[2].exitCode = 0

\* C28: in a runner, once the fallback attempt is launched the log holds the
\* raw output of the primary attempt under its label; and when the primary
\* output was a refusal and the fallback returned exit code 0, the log holds
\* the raw outputs of both attempts, in order, under two different labels,
\* and a runner that has exited without an error has left the ledger
\* showing completed.
C28_BothAttemptsLogged ==
    variant # "cli" =>
        /\ Len(launched) = 2 =>
               /\ Len(logFile) >= 1
               /\ logFile[1] = [label |-> "Output:", text |-> attempts[1].output]
        /\ refusedThenSucceeded =>
               /\ Len(logFile) = 2
               /\ logFile[2].text = attempts[2].output
               /\ logFile[2].label # logFile[1].label
               /\ (dpc = "done" /\ ~caught) => jobStatus = "completed"

\* A Docker job whose primary attempt refused and whose fallback succeeded
\* has ended.
C28_Witness ==
    /\ variant = "docker"
    /\ refusedThenSucceeded
    /\ attempts[1].output = OutRefusal
    /\ dpc = "done"
    /\ jobStatus = "completed"
    /\ Len(logFile) = 2

\* C29: the cleanup of the agent's state in the sandbox between a refused
\* primary attempt and the fallback attempt is best-effort: once a remote
\* job whose primary output calls for the fallback is past the cleanup and
\* the launch that follows it, the fallback attempt has been launched,
\* whatever the cleanup command did; and
\* when that attempt has returned and the sandbox is deleted, the exit code of
\* the job is the exit code of the fallback attempt.
C29_CleanupFailureNotFatal ==
    (/\ variant = "remote"
     /\ attempts # <<>>
     /\ shouldRetry(variant, retryModel, attempts[1].output)
     /\ dpc \notin {"check", "cleanupState", "fallback"}) =>
        /\ Len(launched) = 2
        /\ (Len(attempts) = 2 /\ dpc = "done" /\ sandbox = "deleted") =>
               procExit = Num(attempts[2].exitCode)

\* C30: at the end of a job the ledger is updated to completed or failed
\* before the sandbox is released: whenever the sandbox of a remote job is
\* deleted, the ledger shows the job's terminal status.
C30_LedgerUpdatedBeforeRelease ==
    (variant = "remote" /\ sandbox = "deleted") => jobStatus \in Terminal


(***************************************************************************)
(* Claims about the sync to the shared repository, the ledger's records,   *)
(* refusal detection and concurrent jobs.                                  *)
(***************************************************************************)

\* The commands of the sync, in the order they were run.
gitCmds == [k \in DOMAIN gitSteps |-> gitSteps[k].cmd]

\* C31: the sync to the shared repository runs stage-all, status, commit,
\* push in that order; no git command is run unless the shared repository is
\* configured and the job stored a new file; the commit is run only after a
\* status check that reported changes; the push only after a commit that
\* was made.
C31_SyncOrder ==
    /\ gitSteps # <<>> => (variant = "cli" /\ useRayBuddy /\ store # emptyStore)
    /\ gitCmds = SubSeq(<<"add", "status", "commit", "push">>, 1, Len(gitSteps))
    /\ Len(gitSteps) >= 2 => gitSteps[1].ok
    /\ Len(gitSteps) >= 3 => (gitSteps[2].ok /\ gitSteps[2].changes)
    /\ Len(gitSteps) = 4 => gitSteps[3].ok

\* C31 witness: a sync that staged, found changes, committed and pushed; and
\* the runs are over.
C31_Witness ==
    /\ dpc = "done"
    /\ Len(gitSteps) = 4
    /\ gitSteps[2].changes
    /\ gitSteps[4] = [cmd |-> "push", ok |-> TRUE]
    /\ store # emptyStore


\* The fields of a record an update may change.
Mutable == {"status", "endTime"}

\* Records a and b agree on every field outside Mutable.
sameFrame(a, b) ==
    /\ DOMAIN a \ Mutable = DOMAIN b \ Mutable
    /\ \A x \in DOMAIN a \ Mutable : a[x] = b[x]

\* C32: what updateTask writes differs from the array it read only in the
\* status and endTime of the first record carrying the job's id: the other
\* fields of that record, every other record, and the number and order of
\* the records are as read.
C32_UpdateFrame ==
    [][\A j \in Jobs :
          (pc[j] = "upd_write" /\ pc'[j] = "exited" /\ findIndex(tasks[j], taskId[j]) # 0) =>
              LET idx == findIndex(tasks[j], taskId[j])
                  written == tasksFile'.content
              IN  /\ Len(written) = Len(tasks[j])
                  /\ sameFrame(written[idx], tasks[j][idx])
                  /\ written[idx].id = taskId[j]
                  /\ \A k \in DOMAIN written : k # idx => written[k] = tasks[j][k]]_vars

\* C32 witness: a ledger of MaxJobs records with different ids after an
\* update at a later clock value than the record's start: the updated
\* record is terminal, another one is still running.
C32_Witness ==
    /\ DistinctIds
    /\ Len(tasksFile.content) = MaxJobs
    /\ \E j \in Jobs : \E k, m \in DOMAIN tasksFile.content :
          /\ pc[j] = "exited"
          /\ tasksFile.content[k].id = taskId[j]
          /\ tasksFile.content[k].status \in Terminal
          /\ "endTime" \in DOMAIN tasksFile.content[k]
          /\ tasksFile.content[k].endTime > tasksFile.content[k].startTime
          /\ tasksFile.content[m].status = "running"


\* Characters a and b are the same letter, whatever their case.
sameLetter(a, b) ==
    \/ a = b
    \/ a \in UpperLetters /\ lowerOf[a] = b
    \/ b \in UpperLetters /\ lowerOf[b] = a

\* Signature p occurs in s somewhere, case ignored.
occursIgnoringCase(s, p) ==
    \E i \in 0..(Len(s) - Len(p)) : \A m \in 1..Len(p) : sameLetter(s[i + m], p[m])

\* The signature list of a driver.
signaturesOf(v) == IF v = "remote" THEN REFUSAL_PATTERNS_REMOTE ELSE REFUSAL_PATTERNS

\* C33: detectRefusal returns true exactly when some signature of the
\* driver's list occurs in the output as a substring, letter case ignored;
\* an output containing "I CANNOT ASSIST" is a refusal.
C33_RefusalCaseInsensitive ==
    isRefusal # NotChecked =>
        /\ isRefusal.refusal =
              (\E k \in DOMAIN signaturesOf(isRefusal.by) :
                   occursIgnoringCase(agentOutput, signaturesOf(isRefusal.by)[k]))
        /\ includes(agentOutput, OutRefusal) => isRefusal.refusal

\* C33 witness: the Docker runner's detectRefusal said refusal for an output
\* that holds "I CANNOT ASSIST" after other text.
C33_Witness ==
    /\ isRefusal = [by |-> "docker", refusal |-> TRUE]
    /\ includes(agentOutput, OutRefusal)
    /\ agentOutput # OutRefusal
    /\ SubSeq(agentOutput, 1, 5) = OutDone


\* C34: also when the harvests of several jobs interleave, a file the tool
\* store holds keeps the content of the copy that put it there: no later
\* copy by another job's harvest replaces it.
C34_FirstWriteWinsConcurrently ==
    [][\A n \in Names :
          store[n].kind = "file" =>
              (store'[n].kind = "file" /\ store'[n].content = store[n].content)]_vars


(***************************************************************************)
(* Claims about what becomes of a job's record.                            *)
(***************************************************************************)
\* The status the ledger file holds for job j.
ledgerStatus(j) ==
    LET idx == findIndex(tasksFile.content, taskId[j])
    IN  IF idx = 0 THEN "none" ELSE tasksFile.content[idx].status

\* C35: with jobs of pairwise different ids whose processes are left to
\* run, and no purge, every job whose runner was started has from some
\* moment on a terminal status in the ledger for good, other jobs being
\* created and updated on the same ledger meanwhile.
C35_EveryJobEndsTerminal ==
    ([]DistinctIds) =>
        \A j \in Jobs : [](pc[j] = "running" => <>[](ledgerStatus(j) \in Terminal))


\* C36: once a purge that removed the ledger file has returned, no record it
\* removed is in the ledger again, whatever the jobs that were running at
\* that time do afterwards (jobs of pairwise different ids, so that a new
\* job's record is not taken for a removed one).
C36_PurgedRecordsStayGone ==
    (DistinctIds /\ ppc = "returned" /\ removed.ledger = "removed") =>
        \A k \in DOMAIN tasksFile.content : tasksFile.content[k].id \notin removed.records


(***************************************************************************)
(* Claims about the order of the calls on a sandbox.                       *)
(***************************************************************************)
\* C37: the remote runner issues one create call, first of all its sandbox
\* calls; every other call (install, upload, agent run, cleanup, delete)
\* comes after a create that returned; and the delete call is the last call:
\* once the sandbox is deleted, or its delete was tried, nothing is sent.
C37_CommandsWithinLifetime ==
    variant = "remote" =>
        /\ \A k \in DOMAIN calls :
              /\ calls[k].op = "create" <=> k = 1
              /\ k > 1 => calls[1].out = "zero"
              /\ calls[k].op = "delete" => k = Len(calls)
        /\ sandbox \in {"deleted", "deleteFailed"} =>
              (calls # <<>> /\ calls[Len(calls)].op = "delete")
        /\ sandbox # "none" => (calls # <<>> /\ calls[1] = call("create", 0, "zero", TRUE))

\* C37 witness: a remote job is over that created its sandbox, installed,
\* uploaded, ran the primary model, cleaned up, ran the fallback and deleted
\* the sandbox.
C37_Witness ==
    /\ variant = "remote"
    /\ dpc = "done"
    /\ sandbox = "deleted"
    /\ [k \in DOMAIN calls |-> calls[k].op] =
          <<"create", "install", "upload", "run", "cleanup", "run", "delete">>


(***************************************************************************)
(* Claims about the steps of ensureDockerImage.                            *)
(***************************************************************************)
\* Step c was taken by ensureDockerImage.
stepTaken(c) == \E k \in DOMAIN imageSteps : imageSteps[k].cmd = c

\* Step c was taken and failed.
failedStep(c) == \E k \in DOMAIN imageSteps : imageSteps[k] = [cmd |-> c, ok |-> FALSE]

\* The steps in the order of the code, those not taken left out.
inOrder ==
    \A a, b \in DOMAIN imageSteps :
        a < b => \/ imageSteps[a].cmd = "inspect"
                 \/ imageSteps[a].cmd = "test" /\ imageSteps[b].cmd \in {"dockerfile", "build"}
                 \/ imageSteps[a].cmd = "dockerfile" /\ imageSteps[b].cmd = "build"

\* C38 as stated: ensureDockerImage attempts a build if and only if the
\* inspect failed or the smoke test of an existing image failed; the smoke
\* test is run only after an inspect that found the image.
C38_BuildIffNotUsable ==
    imageSteps # <<>> =>
        /\ stepTaken("build") <=> (failedStep("inspect") \/ failedStep("test"))
        /\ stepTaken("test") <=> (stepTaken("inspect") /\ ~failedStep("inspect"))

\* C38 amended: the build is attempted if and only if the inspect failed or
\* the smoke test failed, and the Dockerfile is there; an image that passed
\* both is not rebuilt and the Dockerfile is not looked for; the smoke test
\* is run exactly after an inspect that found the image; and the steps come
\* in the order inspect, smoke test, Dockerfile check, build.
C38_BuildIffNotUsableAndDockerfile ==
    imageSteps # <<>> =>
        /\ imageSteps[1].cmd = "inspect"
        /\ inOrder
        /\ stepTaken("test") <=> ~failedStep("inspect")
        /\ stepTaken("dockerfile") <=> (failedStep("inspect") \/ failedStep("test"))
        /\ stepTaken("build") <=> (stepTaken("dockerfile") /\ ~failedStep("dockerfile"))
        /\ (~stepTaken("build") /\ ~failedStep("dockerfile")) => image = "usable"

\* C38 witness: an image that was there failed its smoke test and was
\* rebuilt, and the agent was launched with it.
C38_Witness ==
    /\ variant # "remote"
    /\ imageSteps = <<[cmd |-> "inspect", ok |-> TRUE], [cmd |-> "test", ok |-> FALSE],
                      [cmd |-> "dockerfile", ok |-> TRUE], [cmd |-> "build", ok |-> TRUE]>>
    /\ image = "usable"
    /\ launched # <<>>


(***************************************************************************)
(* Claims about the order of the steps of the sandbox helper CLI.          *)
(***************************************************************************)
\* The place of a sandbox call in the order create, pushes, command, pulls,
\* delete.
rank(op) ==
    CASE op = "create" -> 1
      [] op \in {"truncate", "append"} -> 2
      [] op = "cmd" -> 3
      [] op = "base64" -> 4
      [] op = "delete" -> 5

\* The call at k of a push, of the command or of a pull did not succeed, as
\* far as its response tells: it threw or reported a non-zero exit code.
failedAt(k) == rank(calls[k].op) \in {2, 3, 4} /\ calls[k].out # "zero"

\* C39: the helper's sandbox calls come in the order create, pushes,
\* command, pulls, delete; the command is run after opts.push pushes none of
\* whose calls failed, a pull after a command that exited 0 when a command
\* was given; a failed call of a push, of the command or of a pull is
\* followed by no further push, command or pull call, and the run ends
\* with process exit code 1.
C39_HelperStepOrder ==
    hcpc # "off" =>
        /\ \A a, b \in DOMAIN calls : a < b => rank(calls[a].op) <= rank(calls[b].op)
        /\ \A k \in DOMAIN calls :
              /\ calls[k].op = "cmd" =>
                    /\ Cardinality({a \in 1..k : calls[a].op = "truncate"}) = opts.push
                    /\ \A a \in 1..(k - 1) : ~failedAt(a)
              /\ calls[k].op = "base64" =>
                    /\ opts.cmd => \E a \in 1..(k - 1) : calls[a].op = "cmd" /\ calls[a].out = "zero"
                    /\ \A a \in 1..(k - 1) : ~failedAt(a)
              /\ failedAt(k) =>
                    /\ \A b \in DOMAIN calls : b > k => rank(calls[b].op) = 5
                    /\ hcpc = "done" => processExitCode = 1

====
